---- MODULE Spec2Model ----
(***************************************************************************)
(* A model of the Akita nginx module: the JSON writer and bounded body     *)
(* capture of akita_client.c and the mirroring handlers of                 *)
(* ngx_http_akita_module.c (pre-content handler, request-body callback,    *)
(* response header filter, response body filter, subrequest callback).     *)
(*                                                                         *)
(* Bytes are natural numbers 0..255; a string (ngx_str_t) is a sequence of *)
(* bytes.  A pointer that may be NULL is a record that carries its own     *)
(* "is it there" field.                                                    *)
(***************************************************************************)
EXTENDS Integers, Sequences, FiniteSets, TLC

VARIABLES
  conf,      \* ngx_http_akita_loc_conf_t of the location: enabled, max_body_size
  pc,        \* where the host pipeline is with the main request
  ctx,       \* ngx_http_akita_ctx_t of the main request (exists = FALSE: no context)
  resp,      \* the real response: stage "none", "headers" (headers sent, body
             \* under way) or "done" (last buffer sent); seen: body bytes so far;
             \* calls: calls of the body filter so far
  inflight,  \* subrequests created by ngx_akita_send_api_call and not yet completed
  last,      \* what the most recent handler invocation did, as the host sees it
  crashed,   \* the worker process died (undefined behaviour took the fatal outcome)
  sent,      \* documents handed to ngx_akita_send_api_call, by agent path, and
             \* failed: dispatches that returned an error
  cap,       \* state of a body capture driven chunk by chunk (json_escape_buf)
  w,         \* a document under a sequence of writer calls, and the last call
  clock      \* number of handler calls on the main request so far

vars == <<conf, pc, ctx, resp, inflight, last, crashed, sent, cap, w, clock>>

----------------------------------------------------------------------------
(* Return codes of the host, as the module's code compares them. *)
NGX_OK == 0
NGX_ERROR == -1
NGX_AGAIN == -2
NGX_DONE == -4
NGX_DECLINED == -5
NGX_HTTP_SPECIAL_RESPONSE == 300
NGX_HTTP_INTERNAL_SERVER_ERROR == 500

(* static const ngx_uint_t json_initial_size = 4096; *)
json_initial_size == 4096

Max(a, b) == IF a >= b THEN a ELSE b
Min(a, b) == IF a <= b THEN a ELSE b

(* ASCII codes of the characters the module writes itself. *)
Ord ==
  ("a" :> 97) @@ ("b" :> 98) @@ ("c" :> 99) @@ ("d" :> 100) @@
  ("e" :> 101) @@ ("f" :> 102) @@ ("g" :> 103) @@ ("h" :> 104) @@
  ("i" :> 105) @@ ("j" :> 106) @@ ("k" :> 107) @@ ("l" :> 108) @@
  ("m" :> 109) @@ ("n" :> 110) @@ ("o" :> 111) @@ ("p" :> 112) @@
  ("q" :> 113) @@ ("r" :> 114) @@ ("s" :> 115) @@ ("t" :> 116) @@
  ("u" :> 117) @@ ("v" :> 118) @@ ("w" :> 119) @@ ("x" :> 120) @@
  ("y" :> 121) @@ ("z" :> 122) @@ ("A" :> 65) @@ ("B" :> 66) @@
  ("C" :> 67) @@ ("D" :> 68) @@ ("E" :> 69) @@ ("F" :> 70) @@ ("G" :> 71) @@
  ("H" :> 72) @@ ("I" :> 73) @@ ("J" :> 74) @@ ("K" :> 75) @@ ("L" :> 76) @@
  ("M" :> 77) @@ ("N" :> 78) @@ ("O" :> 79) @@ ("P" :> 80) @@ ("Q" :> 81) @@
  ("R" :> 82) @@ ("S" :> 83) @@ ("T" :> 84) @@ ("U" :> 85) @@ ("V" :> 86) @@
  ("W" :> 87) @@ ("X" :> 88) @@ ("Y" :> 89) @@ ("Z" :> 90) @@ ("0" :> 48) @@
  ("1" :> 49) @@ ("2" :> 50) @@ ("3" :> 51) @@ ("4" :> 52) @@ ("5" :> 53) @@
  ("6" :> 54) @@ ("7" :> 55) @@ ("8" :> 56) @@ ("9" :> 57) @@ ("_" :> 95) @@
  ("-" :> 45) @@ ("{" :> 123) @@ ("}" :> 125) @@ ("[" :> 91) @@
  ("]" :> 93) @@ (":" :> 58) @@ ("," :> 44) @@ ("." :> 46) @@ ("/" :> 47) @@
  (" " :> 32) @@ ("\"" :> 34) @@ ("\\" :> 92)

(* ngx_string("..."): the bytes of a literal, given as a tuple of
   one-character strings. *)
Str(t) == [i \in 1..Len(t) |-> Ord[t[i]]]

ngx_null_string == <<>>

----------------------------------------------------------------------------
(* ngx_escape_json(NULL, src, size): the number of bytes escaping ADDS. *)
EscapeDelta(ch) ==
  IF ch = 92 \/ ch = 34 THEN 1
  ELSE IF ch <= 31
       THEN (IF ch \in {10, 13, 9, 8, 12} THEN 1 ELSE 5)
       ELSE 0

RECURSIVE ngx_escape_json_len(_)
ngx_escape_json_len(src) ==
  IF Len(src) = 0 THEN 0
  ELSE IF Len(src) = 1 THEN EscapeDelta(src[1])
  ELSE LET h == Len(src) \div 2
       IN ngx_escape_json_len(SubSeq(src, 1, h))
          + ngx_escape_json_len(SubSeq(src, h + 1, Len(src)))

HexDigit(n) == IF n < 10 THEN 48 + n ELSE 65 + n - 10

(* An escaping that lets the control characters without a short form
   through as they are. *)
EscapeCharShortOnly(ch) ==
  IF ch > 31
  THEN (IF ch = 92 \/ ch = 34 THEN <<92, ch>> ELSE <<ch>>)
  ELSE CASE ch = 10 -> <<92, 110>>
         [] ch = 13 -> <<92, 114>>
         [] ch = 9  -> <<92, 116>>
         [] ch = 8  -> <<92, 98>>
         [] ch = 12 -> <<92, 102>>
         [] OTHER   -> <<ch>>

(* ngx_escape_json(dst, src, size): what is written for one byte. *)
EscapeChar(ch) ==
  IF ch > 31
  THEN (IF ch = 92 \/ ch = 34 THEN <<92, ch>> ELSE <<ch>>)
  ELSE CASE ch = 10 -> <<92, 110>>
         [] ch = 13 -> <<92, 114>>
         [] ch = 9  -> <<92, 116>>
         [] ch = 8  -> <<92, 98>>
         [] ch = 12 -> <<92, 102>>
         [] OTHER   -> <<92, 117, 48, 48, 48 + (ch \div 16), HexDigit(ch % 16)>>

RECURSIVE ngx_escape_json(_)
ngx_escape_json(src) ==
  IF Len(src) = 0 THEN <<>>
  ELSE IF Len(src) = 1 THEN EscapeChar(src[1])
  ELSE LET h == Len(src) \div 2
       IN ngx_escape_json(SubSeq(src, 1, h))
          \o ngx_escape_json(SubSeq(src, h + 1, Len(src)))

----------------------------------------------------------------------------
(* json_data_t.  chain is the sequence of buffers (each with its capacity
   end - start, the bytes between pos and last, and its last_buf flag);
   tail is the index of the last buffer.  pool is the allocation pool: n
   counts the allocations json_ensure_space has asked of it, and fail is
   the set of those that return NULL.  A NULL json_data_t* has no buffer. *)
NullJson ==
  [pool |-> [fail |-> {}, n |-> 0], chain |-> <<>>, tail |-> 0,
   content_length |-> 0, oom |-> FALSE]

IsNull(j) == j.chain = <<>>

TempBuf(size) == [size |-> size, data |-> <<>>, last_buf |-> FALSE]

(* json_alloc, when both of its allocations succeed. *)
json_alloc(pool) ==
  [pool |-> pool, chain |-> <<TempBuf(json_initial_size)>>, tail |-> 1,
   content_length |-> 0, oom |-> FALSE]

(* A json_ensure_space whose new buffer always has the initial size. *)
json_ensure_space_initial_size(j, size) ==
  LET curr_buf == j.chain[j.tail]
      n1 == j.pool.n + 1
      n2 == j.pool.n + 2
  IN IF Len(curr_buf.data) + size < curr_buf.size
     THEN [j |-> j, p |-> TRUE]
     ELSE IF n1 \in j.pool.fail
     THEN [j |-> [j EXCEPT !.oom = TRUE, !.pool.n = n1], p |-> FALSE]
     ELSE IF n2 \in j.pool.fail
     THEN [j |-> [j EXCEPT !.oom = TRUE, !.pool.n = n2], p |-> FALSE]
     ELSE [j |-> [j EXCEPT !.chain = Append(@, TempBuf(json_initial_size)),
                           !.tail = Len(j.chain) + 1,
                           !.pool.n = n2],
           p |-> TRUE]

(* json_ensure_space: p is FALSE for a NULL return.  last + size < end:
   a buffer of capacity c takes at most c - 1 bytes. *)
json_ensure_space(j, size) ==
  LET curr_buf == j.chain[j.tail]
      n1 == j.pool.n + 1
      n2 == j.pool.n + 2
  IN IF Len(curr_buf.data) + size < curr_buf.size
     THEN [j |-> j, p |-> TRUE]
     ELSE IF n1 \in j.pool.fail
     THEN [j |-> [j EXCEPT !.oom = TRUE, !.pool.n = n1], p |-> FALSE]
     ELSE IF n2 \in j.pool.fail
     THEN [j |-> [j EXCEPT !.oom = TRUE, !.pool.n = n2], p |-> FALSE]
     ELSE [j |-> [j EXCEPT !.chain = Append(@, TempBuf(Max(size, json_initial_size))),
                           !.tail = Len(j.chain) + 1,
                           !.pool.n = n2],
           p |-> TRUE]

(* The writes every writer ends with: bytes land at tail->buf->last, and
   content_length grows by the amount the writer computed. *)
Commit(j, bytes, counted) ==
  [j EXCEPT !.chain[j.tail].data = @ \o bytes,
            !.content_length = @ + counted]

(* The statements of a function body run in order: Do(steps) is what the
   last of them leaves, each step being evaluated before the next.  A
   function that makes several writes begins with Do(<<j, ...>>): the
   document it is given is the result of the statements before the call. *)
Do(steps) == steps[Len(steps)]

json_write_char(j, c) ==
  LET e == json_ensure_space(j, 1)
  IN IF ~e.p THEN e.j ELSE Commit(e.j, <<c>>, 1)

(* A writer that asks for the room of the unescaped string. *)
json_write_string_literal_unescaped_size(j, str) ==
  LET sz == Len(str) + 2
      e == json_ensure_space(j, sz)
  IN IF ~e.p THEN e.j
     ELSE Commit(e.j, <<34>> \o ngx_escape_json(str) \o <<34>>, sz)

json_write_string_literal(j, str) ==
  LET sz == ngx_escape_json_len(str) + Len(str) + 2
      e == json_ensure_space(j, sz)
  IN IF ~e.p THEN e.j
     ELSE Commit(e.j, <<34>> \o ngx_escape_json(str) \o <<34>>, sz)

(* A json_snprintf that counts the room it asked for. *)
json_snprintf_counts_room(j, max_len, formatted) ==
  LET e == json_ensure_space(j, max_len)
      out == SubSeq(formatted, 1, Min(Len(formatted), max_len))
  IN IF ~e.p THEN e.j ELSE Commit(e.j, out, max_len)

(* ngx_vslprintf never writes past dst + max_len. *)
json_snprintf(j, max_len, formatted) ==
  LET e == json_ensure_space(j, max_len)
      out == SubSeq(formatted, 1, Min(Len(formatted), max_len))
  IN IF ~e.p THEN e.j ELSE Commit(e.j, out, Len(out))

RECURSIVE Decimal(_)
Decimal(n) == IF n < 10 THEN <<48 + n>> ELSE Decimal(n \div 10) \o <<48 + (n % 10)>>

(* "%0Nd" and "%Nd": left padding to a width, with '0' or ' '. *)
Pad(digits, width, fill) ==
  [i \in 1..(Max(width, Len(digits)) - Len(digits)) |-> fill] \o digits

(* "%ud" takes an unsigned int; the sizes of the model stay below 2^31,
   where the conversion changes nothing. *)
json_write_uint_property(j, key, n) ==
  json_snprintf(json_write_char(json_write_string_literal(j, key), Ord[":"]),
                20, Decimal(n))

(* An entry that is always preceded by a comma. *)
kv_entry_comma_first(j, entry, need_comma) ==
  json_write_string_literal(
    json_write_char(
      json_write_string_literal(json_write_char(j, Ord[","]), entry.key),
      Ord[":"]),
    entry.value)

(* json_write_kv_strings: kv is the array, ended by an entry with an empty
   key; i is the loop position. *)
kv_entry(j, entry, need_comma) ==
  json_write_string_literal(
    json_write_char(
      json_write_string_literal(
        IF need_comma THEN json_write_char(j, Ord[","]) ELSE j,
        entry.key),
      Ord[":"]),
    entry.value)

RECURSIVE kv_loop(_, _, _, _)
kv_loop(j, kv, i, need_comma) ==
  Do(<<j, IF i > Len(kv) \/ Len(kv[i].key) = 0 THEN j
          ELSE IF kv[i].omit THEN kv_loop(j, kv, i + 1, need_comma)
          ELSE kv_loop(kv_entry(j, kv[i], need_comma), kv, i + 1, TRUE)>>)

json_write_kv_strings(j, kv) == kv_loop(j, kv, 1, FALSE)

KV(key, value, omit) == [key |-> key, value |-> value, omit |-> omit]

----------------------------------------------------------------------------
(* ngx_gmtime, as json_write_time_literal calls it: seconds since the
   epoch to year, month (1..12), day, hour, minute, second. *)
ngx_gmtime(t) ==
  LET t0 == IF t < 0 THEN 0 ELSE t
      sec0 == t0 % 86400
      days == (t0 \div 86400) - (31 + 28) + 719527
      year0 == ((days + 2) * 400) \div (365 * 400 + 100 - 4 + 1)
      yday0 == days - (365 * year0 + (year0 \div 4) - (year0 \div 100) + (year0 \div 400))
      leap == IF (year0 % 4 = 0) /\ ((year0 % 100 # 0) \/ (year0 % 400 = 0)) THEN 1 ELSE 0
      yday == IF yday0 < 0 THEN 365 + leap + yday0 ELSE yday0
      year1 == IF yday0 < 0 THEN year0 - 1 ELSE year0
      mon0 == ((yday + 31) * 10) \div 306
      mday == yday - (((367 * mon0) \div 12) - 30) + 1
  IN [ngx_tm_wday |-> (4 + (t0 \div 86400)) % 7,
      ngx_tm_year |-> IF yday >= 306 THEN year1 + 1 ELSE year1,
      ngx_tm_mon  |-> IF yday >= 306 THEN mon0 - 10 ELSE mon0 + 2,
      ngx_tm_mday |-> mday,
      ngx_tm_hour |-> sec0 \div 3600,
      ngx_tm_min  |-> (sec0 % 3600) \div 60,
      ngx_tm_sec  |-> sec0 % 60]

(* A format with a fraction of "%d": no padding. *)
TimeFormatUnpadded(tm, tv_usec) ==
  <<34>> \o Pad(Decimal(tm.ngx_tm_year), 4, 32) \o <<Ord["-"]>>
         \o Pad(Decimal(tm.ngx_tm_mon), 2, 48) \o <<Ord["-"]>>
         \o Pad(Decimal(tm.ngx_tm_mday), 2, 48) \o <<Ord["T"]>>
         \o Pad(Decimal(tm.ngx_tm_hour), 2, 48) \o <<Ord[":"]>>
         \o Pad(Decimal(tm.ngx_tm_min), 2, 48) \o <<Ord[":"]>>
         \o Pad(Decimal(tm.ngx_tm_sec), 2, 48) \o <<Ord["."]>>
         \o Decimal(tv_usec) \o <<Ord["Z"], 34>>

(* "\"%4d-%02d-%02dT%02d:%02d:%02d.%06dZ\"" *)
TimeFormat(tm, tv_usec) ==
  <<34>> \o Pad(Decimal(tm.ngx_tm_year), 4, 32) \o <<Ord["-"]>>
         \o Pad(Decimal(tm.ngx_tm_mon), 2, 48) \o <<Ord["-"]>>
         \o Pad(Decimal(tm.ngx_tm_mday), 2, 48) \o <<Ord["T"]>>
         \o Pad(Decimal(tm.ngx_tm_hour), 2, 48) \o <<Ord[":"]>>
         \o Pad(Decimal(tm.ngx_tm_min), 2, 48) \o <<Ord[":"]>>
         \o Pad(Decimal(tm.ngx_tm_sec), 2, 48) \o <<Ord["."]>>
         \o Pad(Decimal(tv_usec), 6, 48) \o <<Ord["Z"], 34>>

(* format = "\"2006-01-02T15:04:05.999999Z\"": format.len bytes are reserved. *)
time_format_len == 29

json_write_time_literal(j, tv) ==
  json_snprintf(j, time_format_len, TimeFormat(ngx_gmtime(tv.tv_sec), tv.tv_usec))

----------------------------------------------------------------------------
(* ngx_akita_write_headers_list: headers_list is the sequence of the
   elements of all parts of the list, in order. *)
header_fields(h) ==
  << KV(Str(<<"h","e","a","d","e","r">>), h.key, FALSE),
     KV(Str(<<"v","a","l","u","e">>), h.value, FALSE),
     KV(ngx_null_string, ngx_null_string, FALSE) >>

RECURSIVE headers_loop(_, _, _)
headers_loop(j, headers, i) ==
  Do(<<j, IF i > Len(headers) THEN j
          ELSE headers_loop(
                 json_write_char(
                   json_write_kv_strings(
                     json_write_char(
                       IF i > 1 THEN json_write_char(j, Ord[","]) ELSE j,
                       Ord["{"]),
                     header_fields(headers[i])),
                   Ord["}"]),
                 headers, i + 1)>>)

ngx_akita_write_headers_list(j, headers_list) ==
  json_write_char(
    headers_loop(
      json_write_char(
        json_write_char(
          json_write_string_literal(j, Str(<<"h","e","a","d","e","r","s">>)),
          Ord[":"]),
        Ord["["]),
      headers_list, 1),
    Ord["]"])

----------------------------------------------------------------------------
(* ngx_buf_t as json_escape_buf reads it.  mem is the bytes pos..last of an
   in-memory buffer; file is the bytes file_pos..file_last the buffer
   stands for when it is file-backed. *)
Buf(in_memory, in_file, last_buf, mem, file) ==
  [in_memory |-> in_memory, in_file |-> in_file, last_buf |-> last_buf,
   mem |-> mem, file |-> file]

ngx_buf_in_memory(buf) == buf.in_memory

ngx_buf_size(buf) == IF ngx_buf_in_memory(buf) THEN Len(buf.mem) ELSE Len(buf.file)

(* ngx_read_file(file, file_buf, size, file_pos) under the conditions io:
   io.read is "error" (the call returns a negative value), "all" (it reads
   the size bytes asked for), or "one" / "none" (the file ends early and
   the call returns the 1 / 0 bytes it could read). *)
ngx_read_file(buf, size, io) ==
  CASE io.read = "error" -> -1
    [] io.read = "all"   -> size
    [] io.read = "one"   -> Min(1, size)
    [] OTHER             -> 0

(* The scratch buffer after the read: ngx_palloc does not clear it, so the
   bytes past num_read hold whatever the allocator left (io.junk). *)
FileBuf(buf, size, num_read, io) ==
  [i \in 1..size |-> IF i <= num_read THEN buf.file[i] ELSE io.junk]

EscapeResult(j, total_size, rc, raw, read) ==
  [j |-> j, total_size |-> total_size, rc |-> rc, raw |-> raw, read |-> read]

(* The tail of json_escape_buf, from size_delta on.  raw and read are for
   the properties: the unescaped bytes the call put in the literal, and the
   number of bytes it asked of ngx_read_file (-1: no read). *)
EscapeWrite(j, total_size, unescaped, read) ==
  LET unescaped_len == Len(unescaped)
      size_delta == ngx_escape_json_len(unescaped)
      e == json_ensure_space(j, unescaped_len + size_delta)
  IN IF ~e.p THEN EscapeResult(e.j, total_size, NGX_ERROR, <<>>, read)
     ELSE EscapeResult(Commit(e.j, ngx_escape_json(unescaped), unescaped_len + size_delta),
                       total_size, NGX_OK, unescaped, read)

(* json_escape_buf from the choice of the source of the bytes on, with
   unescaped_len and the new *total_size already computed. *)
EscapeSource(j, io, unescaped_len, total, buf) ==
  IF ngx_buf_in_memory(buf)
  THEN EscapeWrite(j, total, SubSeq(buf.mem, 1, unescaped_len), -1)
  ELSE IF buf.in_file
  THEN IF ~io.palloc
       THEN EscapeResult(j, total, NGX_ERROR, <<>>, -1)
       ELSE LET num_read == ngx_read_file(buf, unescaped_len, io)
            IN IF num_read < 0
               THEN EscapeResult(j, total, NGX_ERROR, <<>>, unescaped_len)
               ELSE EscapeWrite(j, total, FileBuf(buf, unescaped_len, num_read, io),
                                unescaped_len)
  ELSE IF buf.last_buf
  THEN EscapeResult(j, total, NGX_OK, <<>>, -1)
  ELSE EscapeResult(j, total, NGX_ERROR, <<>>, -1)

(* A json_escape_buf that stops counting once the limit is reached. *)
json_escape_buf_uncounted(j, io, max_size, total_size, buf) ==
  IF total_size >= max_size
  THEN EscapeResult(j, total_size, NGX_OK, <<>>, -1)
  ELSE LET unescaped_len ==
             IF total_size + ngx_buf_size(buf) > max_size
             THEN max_size - total_size ELSE ngx_buf_size(buf)
       IN EscapeSource(j, io, unescaped_len, total_size + ngx_buf_size(buf), buf)

(* A json_escape_buf that reads a file-backed chunk whole before cutting
   it down to the limit. *)
json_escape_buf_full_read(j, io, max_size, total_size, buf) ==
  IF total_size >= max_size
  THEN EscapeResult(j, total_size + ngx_buf_size(buf), NGX_OK, <<>>, -1)
  ELSE EscapeSource(j, io, ngx_buf_size(buf), total_size + ngx_buf_size(buf), buf)

json_escape_buf(j, io, max_size, total_size, buf) ==
  IF total_size >= max_size
  THEN EscapeResult(j, total_size + ngx_buf_size(buf), NGX_OK, <<>>, -1)
  ELSE LET unescaped_len ==
             IF total_size + ngx_buf_size(buf) > max_size
             THEN max_size - total_size ELSE ngx_buf_size(buf)
       IN EscapeSource(j, io, unescaped_len, total_size + ngx_buf_size(buf), buf)

(* ngx_akita_write_body.  request_body.null: r->request_body == NULL. *)
RECURSIVE body_loop(_, _, _, _, _, _)
RECURSIVE body_escaped(_, _, _, _, _)
body_loop(j, io, max_size, total_size, bufs, i) ==
  IF i > Len(bufs) THEN [j |-> j, total_size |-> total_size, ok |-> TRUE]
  ELSE body_escaped(json_escape_buf(j, io, max_size, total_size, bufs[i]),
                    io, max_size, bufs, i)

(* The loop after the i-th call of json_escape_buf, e being what the call
   left. *)
body_escaped(e, io, max_size, bufs, i) ==
  IF e.rc # NGX_OK
  THEN [j |-> [e.j EXCEPT !.oom = TRUE], total_size |-> e.total_size, ok |-> FALSE]
  ELSE body_loop(e.j, io, max_size, e.total_size, bufs, i + 1)

(* ngx_akita_write_body up to the opening quote of the literal. *)
body_open(j) ==
  Do(<<j, json_write_char(
            json_write_char(json_write_string_literal(j, Str(<<"b","o","d","y">>)),
                            Ord[":"]),
            34)>>)

(* A closing of the body that reports a body of exactly max_size bytes as
   truncated. *)
body_close_at_limit(b, max_size) ==
  IF ~b.ok THEN b.j
  ELSE IF b.total_size >= max_size
  THEN json_write_uint_property(
         json_write_char(json_write_char(b.j, 34), Ord[","]),
         Str(<<"t","r","u","n","c","a","t","e","d">>), b.total_size)
  ELSE json_write_char(b.j, 34)

(* ngx_akita_write_body after the loop over the chain, b being what the
   loop left. *)
body_close(b, max_size) ==
  IF ~b.ok THEN b.j
  ELSE IF b.total_size > max_size
  THEN json_write_uint_property(
         json_write_char(json_write_char(b.j, 34), Ord[","]),
         Str(<<"t","r","u","n","c","a","t","e","d">>), b.total_size)
  ELSE json_write_char(b.j, 34)

ngx_akita_write_body(j, io, request_body, max_size) ==
  IF request_body.null THEN json_write_char(body_open(j), 34)
  ELSE body_close(body_loop(body_open(j), io, max_size, 0, request_body.bufs, 1),
                  max_size)

----------------------------------------------------------------------------
(* Bounds and input sets. *)

(* Chunks of one body in the capture specification. *)
MaxChunks == 3

(* Sizes of a body chunk, and configured capture limits. *)
ChunkSizes == {0, 1, 2, 4}
MaxSizes == {0, 3, 10}

(* The bytes of a body: plain characters, a quote, a backslash, control
   characters and a two-byte UTF-8 sequence, repeated. *)
BodyPattern == <<97, 34, 98, 92, 10, 1, 195, 169, 99, 100, 101, 102>>
BodyByte(k) == BodyPattern[((k - 1) % Len(BodyPattern)) + 1]
BodyBytes(from, size) == [i \in 1..size |-> BodyByte(from + i)]

(* What an uncleared scratch buffer may hold. *)
JunkBytes == {0, 97}

(* Conditions of one json_escape_buf call: whether ngx_palloc gives the
   scratch buffer, what ngx_read_file does, the scratch buffer's old bytes. *)
IOs == [palloc : BOOLEAN, read : {"error", "all", "one", "none"}, junk : JunkBytes]

(* The next chunk of a body of which `seen` bytes were seen already: in
   memory, file-backed, both, an empty last buffer, an empty buffer that
   is none of these. *)
Chunk(kind, seen, size) ==
  CASE kind = "memory" -> Buf(TRUE, FALSE, FALSE, BodyBytes(seen, size), <<>>)
    [] kind = "file"   -> Buf(FALSE, TRUE, FALSE, <<>>, BodyBytes(seen, size))
    [] kind = "both"   -> Buf(TRUE, TRUE, FALSE, BodyBytes(seen, size), BodyBytes(seen, size))
    [] kind = "last"   -> Buf(FALSE, FALSE, TRUE, <<>>, <<>>)
    [] OTHER           -> Buf(FALSE, FALSE, FALSE, <<>>, <<>>)

(* The bytes a chunk stands for. *)
ChunkBytes(buf) == IF ngx_buf_in_memory(buf) THEN buf.mem ELSE buf.file

(* All bytes of a document, over its chain. *)
RECURSIVE ChainData(_, _)
ChainData(chain, i) ==
  IF i > Len(chain) THEN <<>> ELSE chain[i].data \o ChainData(chain, i + 1)
DocData(j) == ChainData(j.chain, 1)

NoPool == [fail |-> {}, n |-> 0]

----------------------------------------------------------------------------
(* Body capture, chunk by chunk: the calls ngx_akita_write_body and
   ngx_akita_append_response_body make on one body. *)

NoCall ==
  [kind |-> "none", size |-> 0, read |-> -1, num_read |-> -1, rc |-> NGX_OK,
   raw |-> <<>>, total_before |-> 0, lit_before |-> 0]

CapInit(max_size) ==
  [j |-> json_alloc(NoPool), max_size |-> max_size, total_size |-> 0,
   n |-> 0, ok |-> TRUE, stream |-> <<>>, lit |-> <<>>, reads |-> 0,
   call |-> NoCall]

CapIdle == CapInit(0)

AppendChunk(kind, size, io) ==
  LET buf == Chunk(kind, Len(cap.stream), size)
      e == json_escape_buf(cap.j, io, cap.max_size, cap.total_size, buf)
  IN /\ cap.ok
     /\ cap.n < MaxChunks
     /\ cap' = [j |-> e.j, max_size |-> cap.max_size, total_size |-> e.total_size,
                n |-> cap.n + 1, ok |-> (e.rc = NGX_OK),
                stream |-> cap.stream \o ChunkBytes(buf),
                lit |-> cap.lit \o e.raw,
                reads |-> cap.reads + (IF e.read < 0 THEN 0 ELSE e.read),
                call |-> [kind |-> kind, size |-> ngx_buf_size(buf), read |-> e.read,
                          num_read |-> IF e.read < 0 THEN -1
                                       ELSE ngx_read_file(buf, e.read, io),
                          rc |-> e.rc, raw |-> e.raw,
                          total_before |-> cap.total_size,
                          lit_before |-> Len(cap.lit)]]
     /\ UNCHANGED <<conf, pc, ctx, resp, inflight, last, crashed, sent, w, clock>>

(* The chunks and read conditions tried: sizes matter for the buffers that
   hold bytes, read conditions for the file-backed ones. *)
ChunkKinds ==
  ({"memory", "file"} \X ChunkSizes) \cup {<<"both", 2>>, <<"last", 0>>, <<"sync", 0>>}

ChunkIOs(kind) ==
  IF kind # "file" THEN {[palloc |-> TRUE, read |-> "all", junk |-> 0]}
  ELSE {io \in IOs : (io.read \in {"error", "all"} \/ ~io.palloc) =>
                       (io.junk = 0 /\ (~io.palloc => io.read = "all"))}

----------------------------------------------------------------------------
(* The writer, call by call: one document under a sequence of calls of
   json_write_char, json_write_string_literal, json_write_uint_property,
   json_write_time_literal, json_write_kv_strings and json_escape_buf. *)

(* Writer calls on one document. *)
MaxWrites == 2

(* Bytes already in the first buffer when the calls begin: none, or so many
   that the next writes do not fit. *)
WriterFills == {0, json_initial_size - 6, json_initial_size - 5, json_initial_size - 2}

(* The pool's answers to json_ensure_space: every allocation succeeds, the
   first one (a buffer) fails, the second one (a chain link) fails. *)
WriterPools == {NoPool, [fail |-> {1}, n |-> 0], [fail |-> {2}, n |-> 0]}

(* A document into which earlier writes put `fill` bytes. *)
Filled(pool, fill) == Commit(json_alloc(pool), [i \in 1..fill |-> 120], fill)

(* What is recorded of a writer call: the call and its argument, the
   document before it (flag, cumulative length, bytes in the chain, number
   of buffers, bytes in the tail buffer), whether the bytes that were there
   are still there, and the bytes the call added. *)
NoWrite ==
  [op |-> "none", arg |-> <<>>, oom_before |-> FALSE, length_before |-> 0,
   bytes_before |-> 0, bufs_before |-> 0, tail_before |-> 0, kept |-> TRUE,
   out |-> <<>>, cursors_before |-> <<>>, sizes_before |-> <<>>]

WriterInit(j, limit) == [j |-> j, n |-> 0, limit |-> limit, call |-> NoWrite]

WriterIdle == WriterInit(NullJson, 0)

(* The harness after a writer call that left the document j2. *)
Written(op, arg, j2) ==
  /\ w' = [w EXCEPT
             !.j = j2, !.n = @ + 1,
             !.call = [op |-> op, arg |-> arg, oom_before |-> w.j.oom,
                       length_before |-> w.j.content_length,
                       bytes_before |-> Len(DocData(w.j)),
                       bufs_before |-> Len(w.j.chain),
                       tail_before |-> Len(w.j.chain[w.j.tail].data),
                       kept |-> (SubSeq(DocData(j2), 1, Len(DocData(w.j))) = DocData(w.j)),
                       out |-> SubSeq(DocData(j2), Len(DocData(w.j)) + 1,
                                      Len(DocData(j2))),
                       cursors_before |-> [i \in 1..Len(w.j.chain) |->
                                             Len(w.j.chain[i].data)],
                       sizes_before |-> [i \in 1..Len(w.j.chain) |->
                                           w.j.chain[i].size]]]
  /\ UNCHANGED <<conf, pc, ctx, resp, inflight, last, crashed, sent, cap, clock>>

Writing == w.n < w.limit /\ ~IsNull(w.j)

WriteChar(c) == Writing /\ Written("char", <<c>>, json_write_char(w.j, c))

WriteStringLiteral(str) ==
  Writing /\ Written("string", str, json_write_string_literal(w.j, str))

WriteUintProperty(key, n) ==
  Writing /\ Written("uint", <<key, n>>, json_write_uint_property(w.j, key, n))

WriteTimeLiteral(tv) ==
  Writing /\ Written("time", tv, json_write_time_literal(w.j, tv))

WriteKvStrings(kv) ==
  Writing /\ Written("kv", kv, json_write_kv_strings(w.j, kv))

(* json_escape_buf on an in-memory chunk of a body that is below its limit. *)
WriteBodyChunk(size) ==
  Writing /\ Written("chunk", size,
                     json_escape_buf(w.j, [palloc |-> TRUE, read |-> "all", junk |-> 0],
                                     size, 0, Chunk("memory", 0, size)).j)

----------------------------------------------------------------------------
(* The mirroring handlers.  Every handler is an operator from the state it
   reads and the conditions of the call (outcomes of allocations and of
   the host's functions) to what it leaves behind. *)

(* What undefined behaviour (a store through a NULL or uninitialised
   pointer) may do: kill the worker, or go unnoticed. *)
UBOutcomes == {"crash", "benign"}

ZeroTime == [tv_sec |-> 0, tv_usec |-> 0]

(* ngx_gettimeofday at the tick-th event: 2022-12-07T12:34:56Z onwards. *)
Now(tick) == [tv_sec |-> 1670416496 + tick, tv_usec |-> (123456 * (tick + 1)) % 1000000]

(* ngx_http_akita_ctx_t; NoCtx is "no context set for the request". *)
NoCtx ==
  [exists |-> FALSE, status |-> 0, subrequest_upstream |-> FALSE, enabled |-> FALSE,
   request_start |-> ZeroTime, request_arrived |-> ZeroTime,
   response_start |-> ZeroTime, response_complete |-> ZeroTime,
   response_json |-> NullJson, response_body_size |-> 0]

(* ngx_pcalloc(r->pool, sizeof(ngx_http_akita_ctx_t)) *)
ZeroCtx == [NoCtx EXCEPT !.exists = TRUE]

(* A subrequest that keeps the headers of the request it was made from. *)
SubReqWithHeaders(uri, has_body, content_length, content_type, cleared, upstream) ==
  [uri |-> uri, method |-> "POST", has_body |-> has_body,
   content_length |-> content_length, content_type |-> content_type,
   cleared |-> FALSE, upstream |-> upstream, stage |-> "posted"]

(* A subrequest as ngx_akita_send_api_call leaves it.  stage: "posted"
   (created, not yet run), "upstream" (handed to the agent upstream),
   "declined" (passed on to the location's own handler), "failed". *)
SubReq(uri, has_body, content_length, content_type, cleared, upstream) ==
  [uri |-> uri, method |-> "POST", has_body |-> has_body,
   content_length |-> content_length, content_type |-> content_type,
   cleared |-> cleared, upstream |-> upstream, stage |-> "posted"]

ApiResult(rc, crash, subs) == [rc |-> rc, crashed |-> crash, subs |-> subs]

(* ngx_akita_send_api_call from the allocation of the request body on.
   created: a subrequest exists and is posted. *)
ApiAfterSubrequest(agent_path, content_length, api, created) ==
  LET sub(has_body, len, type, cleared, upstream) ==
        IF created
        THEN <<SubReq(agent_path, has_body, len, type, cleared, upstream)>>
        ELSE <<>>
  IN CASE api.fail = "request_body" ->
            ApiResult(NGX_ERROR, FALSE, sub(FALSE, -1, FALSE, FALSE, FALSE))
       [] api.fail = "header_list" ->
            (* ngx_akita_clear_headers ignores the failure of ngx_list_init;
               ngx_list_push then reads through the zeroed list->last. *)
            IF api.ub = "crash"
            THEN ApiResult(NGX_ERROR, TRUE, sub(TRUE, -1, FALSE, TRUE, FALSE))
            ELSE ApiResult(NGX_OK, FALSE, sub(TRUE, content_length, TRUE, TRUE, TRUE))
       [] api.fail = "content_length" ->
            ApiResult(NGX_ERROR, FALSE, sub(TRUE, -1, FALSE, TRUE, FALSE))
       [] api.fail = "content_type" ->
            ApiResult(NGX_ERROR, FALSE, sub(TRUE, content_length, FALSE, TRUE, FALSE))
       [] api.fail = "ctx" ->
            ApiResult(NGX_ERROR, FALSE, sub(TRUE, content_length, TRUE, TRUE, FALSE))
       [] OTHER ->
            ApiResult(NGX_OK, FALSE, sub(TRUE, content_length, TRUE, TRUE, TRUE))

ngx_akita_send_api_call(agent_path, content_length, api) ==
  CASE api.subrequest = "special" -> ApiResult(NGX_ERROR, FALSE, <<>>)
    [] api.subrequest = "error" ->
         (* rc = NGX_ERROR is not >= NGX_HTTP_SPECIAL_RESPONSE: the code goes
            on and stores through subreq, which was never set. *)
         IF api.ub = "crash" THEN ApiResult(NGX_ERROR, TRUE, <<>>)
         ELSE ApiAfterSubrequest(agent_path, content_length, api, FALSE)
    [] OTHER -> ApiAfterSubrequest(agent_path, content_length, api, TRUE)

(* static ngx_str_t ngx_http_akita_request_location / _response_location *)
ngx_http_akita_request_location == Str(<<"/","t","r","a","c","e","/","v","1","/","r","e","q","u","e","s","t">>)
ngx_http_akita_response_location == Str(<<"/","t","r","a","c","e","/","v","1","/","r","e","s","p","o","n","s","e">>)

(* Result of building and sending one document.  handed: the document
   reached ngx_akita_send_api_call; doc: its bytes and content_length. *)
SendResult(rc, crash, subs, handed, j) ==
  [rc |-> rc, crashed |-> crash, subs |-> subs, handed |-> handed, j |-> j]

(* send_json without the test of j->oom. *)
send_json_unchecked(j, agent_path, api) ==
  LET a == ngx_akita_send_api_call(agent_path, j.content_length, api)
  IN SendResult(a.rc, a.crashed, a.subs, TRUE,
                [j EXCEPT !.chain[j.tail].last_buf = TRUE])

(* The end of both senders: the last buffer is marked, a document that ran
   out of memory is dropped, any other goes to ngx_akita_send_api_call. *)
send_json(j, agent_path, api) ==
  IF j.oom THEN SendResult(NGX_ERROR, FALSE, <<>>, FALSE, j)
  ELSE LET a == ngx_akita_send_api_call(agent_path, j.content_length, api)
       IN SendResult(a.rc, a.crashed, a.subs, TRUE,
                     [j EXCEPT !.chain[j.tail].last_buf = TRUE])

(* The request document of ngx_akita_send_request_body, part by part:
   the string fields, the two times, and the whole. *)
(* A request document whose host member is never omitted. *)
request_fields_with_host(r, env) ==
  LET string_fields ==
        << KV(Str(<<"r","e","q","u","e","s","t","_","i","d">>), r.request_id.value, FALSE),
           KV(Str(<<"m","e","t","h","o","d">>), r.method_name, FALSE),
           KV(Str(<<"p","a","t","h">>), r.uri, FALSE),
           KV(Str(<<"h","o","s","t">>),
              IF r.host.null THEN ngx_null_string ELSE r.host.value, FALSE),
           KV(Str(<<"n","g","i","n","x","_","i","n","t","e","r","n","a","l">>),
              Str(<<"t","r","u","e">>), ~r.internal),
           KV(ngx_null_string, ngx_null_string, FALSE) >>
  IN json_write_char(
       json_write_kv_strings(json_write_char(json_alloc(env.pool), Ord["{"]),
                             string_fields),
       Ord[","])

(* The request document up to the comma before the headers. *)
request_fields(r, env) ==
  LET string_fields ==
        << KV(Str(<<"r","e","q","u","e","s","t","_","i","d">>), r.request_id.value, FALSE),
           KV(Str(<<"m","e","t","h","o","d">>), r.method_name, FALSE),
           KV(Str(<<"p","a","t","h">>), r.uri, FALSE),
           KV(Str(<<"h","o","s","t">>),
              IF r.host.null THEN ngx_null_string ELSE r.host.value, r.host.null),
           KV(Str(<<"n","g","i","n","x","_","i","n","t","e","r","n","a","l">>),
              Str(<<"t","r","u","e">>), ~r.internal),
           KV(ngx_null_string, ngx_null_string, FALSE) >>
  IN json_write_char(
       json_write_kv_strings(json_write_char(json_alloc(env.pool), Ord["{"]),
                             string_fields),
       Ord[","])

(* key ":" time ",": one time field and the comma after it. *)
time_field(j, key, tv) ==
  Do(<<j, json_write_char(
            json_write_time_literal(
              json_write_char(json_write_string_literal(j, key), Ord[":"]),
              tv),
            Ord[","])>>)

request_document(r, c, config, env) ==
  json_write_char(
    ngx_akita_write_body(
      time_field(
        time_field(
          json_write_char(
            ngx_akita_write_headers_list(request_fields(r, env), r.headers),
            Ord[","]),
          Str(<<"r","e","q","u","e","s","t","_","s","t","a","r","t">>),
          c.request_start),
        Str(<<"r","e","q","u","e","s","t","_","a","r","r","i","v","e","d">>),
        c.request_arrived),
      env.io, r.request_body, config.max_body_size),
    Ord["}"])

(* ngx_akita_send_request_body.  r is the request as the function reads
   it; env.json_alloc: json_alloc returns a document; env.pool: the pool's
   answers to the writer; env.io: the conditions of file-backed body
   reads; env.api: the conditions of ngx_akita_send_api_call. *)
ngx_akita_send_request_body(r, agent_path, c, config, env) ==
  IF ~env.json_alloc THEN SendResult(NGX_ERROR, FALSE, <<>>, FALSE, NullJson)
  ELSE IF ~r.request_id.found THEN SendResult(NGX_ERROR, FALSE, <<>>, FALSE, NullJson)
  ELSE send_json(request_document(r, c, config, env), agent_path, env.api)

NoSend == SendResult(NGX_OK, FALSE, <<>>, FALSE, NullJson)

(* What ngx_http_akita_body_callback leaves behind.  resumed: it re-ran
   the phases of the real request; sent: it called
   ngx_akita_send_request_body, with result send; log: its steps in order. *)
CallbackResult(c, resumed, crash, sent_, send, log) ==
  [ctx |-> c, resumed |-> resumed, crashed |-> crash, sent |-> sent_,
   send |-> send, log |-> log]

(* A callback that gives up when the request document cannot be sent. *)
body_callback_sent_stop_on_error(s, c) ==
  IF s.crashed
  THEN CallbackResult(c, FALSE, TRUE, TRUE, s, <<"request_arrived", "send">>)
  ELSE IF s.rc # NGX_OK
  THEN CallbackResult(c, FALSE, FALSE, TRUE, s, <<"request_arrived", "send">>)
  ELSE CallbackResult([c EXCEPT !.status = NGX_DECLINED], TRUE, FALSE, TRUE, s,
                      <<"request_arrived", "send", "status", "run_phases">>)

(* A callback that leaves the request held while a subrequest it has
   posted is under way. *)
body_callback_sent_waits(s, c) ==
  IF s.crashed
  THEN CallbackResult(c, FALSE, TRUE, TRUE, s, <<"request_arrived", "send">>)
  ELSE IF Len(s.subs) > 0
  THEN CallbackResult(c, FALSE, FALSE, TRUE, s, <<"request_arrived", "send">>)
  ELSE CallbackResult([c EXCEPT !.status = NGX_DECLINED], TRUE, FALSE, TRUE, s,
                      <<"request_arrived", "send", "status", "run_phases">>)

(* ngx_http_akita_body_callback after ngx_akita_send_request_body has
   returned, s being what the call left: its result is logged, not acted
   on. *)
body_callback_sent(s, c) ==
  IF s.crashed
  THEN CallbackResult(c, FALSE, TRUE, TRUE, s, <<"request_arrived", "send">>)
  ELSE CallbackResult([c EXCEPT !.status = NGX_DECLINED], TRUE, FALSE, TRUE, s,
                      <<"request_arrived", "send", "status", "run_phases">>)

(* A callback that takes the time of the last byte after the sending. *)
body_callback_late_timestamp(c, r, config, now, env) ==
  IF r.request_body.null THEN CallbackResult(c, FALSE, FALSE, FALSE, NoSend, <<>>)
  ELSE IF ~c.exists THEN CallbackResult(c, FALSE, FALSE, FALSE, NoSend, <<>>)
  ELSE LET c1 == [c EXCEPT !.request_arrived = now]
       IN IF ~env.callback_alloc
          THEN CallbackResult(c1, FALSE, FALSE, FALSE, NoSend, <<"request_arrived">>)
          ELSE body_callback_sent(
                 ngx_akita_send_request_body(r, ngx_http_akita_request_location,
                                             c, config, env),
                 c1)

(* env.callback_alloc: ngx_pcalloc gives the ngx_http_post_subrequest_t.
   The location configuration of a request is never NULL. *)
ngx_http_akita_body_callback(c, r, config, now, env) ==
  IF r.request_body.null THEN CallbackResult(c, FALSE, FALSE, FALSE, NoSend, <<>>)
  ELSE IF ~c.exists THEN CallbackResult(c, FALSE, FALSE, FALSE, NoSend, <<>>)
  ELSE LET c1 == [c EXCEPT !.request_arrived = now]
       IN IF ~env.callback_alloc
          THEN CallbackResult(c1, FALSE, FALSE, FALSE, NoSend, <<"request_arrived">>)
          ELSE body_callback_sent(
                 ngx_akita_send_request_body(r, ngx_http_akita_request_location,
                                             c1, config, env),
                 c1)

(* ngx_http_akita_send_request_to_upstream *)
ngx_http_akita_send_request_to_upstream(upstream_create) ==
  IF ~upstream_create THEN NGX_HTTP_INTERNAL_SERVER_ERROR ELSE NGX_DONE

(* ngx_http_akita_precontent_handler.  is_main: r == r->main; c: the
   context of r; env.ctx_alloc: ngx_pcalloc gives the context; env.read_rc:
   what ngx_http_read_client_request_body returns; env.upstream_create:
   ngx_http_upstream_create succeeds.  read: the body read was started. *)
PrecontentResult(ret, c, read) == [ret |-> ret, ctx |-> c, read |-> read]

(* A handler without the test of r != r->main. *)
precontent_mirrors_subrequests(is_main, c, config, now, env) ==
  IF ~config.enabled THEN PrecontentResult(NGX_DECLINED, c, FALSE)
  ELSE IF c.exists THEN PrecontentResult(c.status, c, FALSE)
  ELSE IF ~env.ctx_alloc THEN PrecontentResult(NGX_ERROR, c, FALSE)
  ELSE LET c1 == [ZeroCtx EXCEPT !.status = NGX_DONE, !.request_start = now]
       IN IF env.read_rc >= NGX_HTTP_SPECIAL_RESPONSE
          THEN PrecontentResult(env.read_rc, c1, TRUE)
          ELSE PrecontentResult(NGX_DONE, c1, TRUE)

ngx_http_akita_precontent_handler(is_main, c, config, now, env) ==
  IF ~is_main
  THEN IF c.exists /\ c.subrequest_upstream
       THEN PrecontentResult(ngx_http_akita_send_request_to_upstream(env.upstream_create), c, FALSE)
       ELSE PrecontentResult(NGX_DECLINED, c, FALSE)
  ELSE IF ~config.enabled THEN PrecontentResult(NGX_DECLINED, c, FALSE)
  ELSE IF c.exists THEN PrecontentResult(c.status, c, FALSE)
  ELSE IF ~env.ctx_alloc THEN PrecontentResult(NGX_ERROR, c, FALSE)
  ELSE LET c1 == [ZeroCtx EXCEPT !.status = NGX_DONE, !.request_start = now]
       IN IF env.read_rc >= NGX_HTTP_SPECIAL_RESPONSE
          THEN PrecontentResult(env.read_rc, c1, TRUE)
          ELSE PrecontentResult(NGX_DONE, c1, TRUE)

(* A callback that warns only when both the result and the status are bad. *)
subrequest_callback_warns_on_both(status, rc) ==
  [severity |-> IF status # 200 /\ rc # NGX_OK THEN "NGX_LOG_WARN" ELSE "NGX_LOG_DEBUG",
   ret |-> NGX_OK]

(* ngx_http_akita_subrequest_callback: the severity it logs at, and its
   return value. *)
ngx_http_akita_subrequest_callback(status, rc) ==
  [severity |-> IF status # 200 \/ rc # NGX_OK THEN "NGX_LOG_WARN" ELSE "NGX_LOG_DEBUG",
   ret |-> NGX_OK]

----------------------------------------------------------------------------
(* ngx_http_time, as ngx_akita_start_response_body calls it:
   "%s, %02d %s %4d %02d:%02d:%02d GMT" *)
WeekDays ==
  << <<"S","u","n">>, <<"M","o","n">>, <<"T","u","e">>, <<"W","e","d">>,
     <<"T","h","u">>, <<"F","r","i">>, <<"S","a","t">> >>
Months ==
  << <<"J","a","n">>, <<"F","e","b">>, <<"M","a","r">>, <<"A","p","r">>,
     <<"M","a","y">>, <<"J","u","n">>, <<"J","u","l">>, <<"A","u","g">>,
     <<"S","e","p">>, <<"O","c","t">>, <<"N","o","v">>, <<"D","e","c">> >>

ngx_http_time(t) ==
  LET tm == ngx_gmtime(t)
  IN Str(WeekDays[tm.ngx_tm_wday + 1]) \o Str(<<",", " ">>)
     \o Pad(Decimal(tm.ngx_tm_mday), 2, 48) \o <<32>>
     \o Str(Months[tm.ngx_tm_mon]) \o <<32>>
     \o Pad(Decimal(tm.ngx_tm_year), 4, 32) \o <<32>>
     \o Pad(Decimal(tm.ngx_tm_hour), 2, 48) \o <<Ord[":"]>>
     \o Pad(Decimal(tm.ngx_tm_min), 2, 48) \o <<Ord[":"]>>
     \o Pad(Decimal(tm.ngx_tm_sec), 2, 48) \o Str(<<" ","G","M","T">>)

Header(key, value) == [key |-> key, value |-> value]

(* The non-omitted entries of internal_headers, in order. *)
RECURSIVE NotOmitted(_, _)
NotOmitted(hs, i) ==
  IF i > Len(hs) \/ Len(hs[i].key) = 0 THEN <<>>
  ELSE (IF hs[i].omit THEN <<>> ELSE <<Header(hs[i].key, hs[i].value)>>)
       \o NotOmitted(hs, i + 1)

StartResult(rc, crash, c, headers_out) ==
  [rc |-> rc, crashed |-> crash, ctx |-> c, headers_out |-> headers_out]

(* The stores of ngx_akita_start_response_body through a pointer it did
   not check: env.hdr_fail names the allocation that fails among the
   scratch buffer of Content-Length ("length_buf"), that of Last-Modified
   ("time_buf") and ngx_list_init ("list"). *)
start_undefined(out, env) ==
  \/ env.hdr_fail = "length_buf" /\ out.content_length_n >= 0
  \/ env.hdr_fail = "time_buf" /\ out.last_modified_time >= 0
  \/ env.hdr_fail = "list"

(* A list that takes a Content-Length of 0 for an unknown one. *)
extra_headers_positive_length(out) ==
  LET internal_headers ==
        << KV(Str(<<"C","o","n","t","e","n","t","-","T","y","p","e">>), out.content_type,
              Len(out.content_type) = 0),
           KV(Str(<<"C","o","n","t","e","n","t","-","L","e","n","g","t","h">>),
              IF out.content_length_n > 0 THEN Decimal(out.content_length_n)
              ELSE ngx_null_string,
              ~(out.content_length_n > 0)),
           KV(Str(<<"L","a","s","t","-","M","o","d","i","f","i","e","d">>),
              IF out.last_modified_time >= 0 THEN ngx_http_time(out.last_modified_time)
              ELSE ngx_null_string,
              ~(out.last_modified_time >= 0)),
           KV(ngx_null_string, ngx_null_string, TRUE) >>
  IN NotOmitted(internal_headers, 1) \o out.headers

(* extra_headers: the three headers nginx keeps outside the list, then the
   list of the real response, which stays as it is. *)
extra_headers(out) ==
  LET internal_headers ==
        << KV(Str(<<"C","o","n","t","e","n","t","-","T","y","p","e">>), out.content_type,
              Len(out.content_type) = 0),
           KV(Str(<<"C","o","n","t","e","n","t","-","L","e","n","g","t","h">>),
              IF out.content_length_n >= 0 THEN Decimal(out.content_length_n)
              ELSE ngx_null_string,
              ~(out.content_length_n >= 0)),
           KV(Str(<<"L","a","s","t","-","M","o","d","i","f","i","e","d">>),
              IF out.last_modified_time >= 0 THEN ngx_http_time(out.last_modified_time)
              ELSE ngx_null_string,
              ~(out.last_modified_time >= 0)),
           KV(ngx_null_string, ngx_null_string, TRUE) >>
  IN NotOmitted(internal_headers, 1) \o out.headers

(* The response document up to the comma after response_code. *)
response_fields(r, env) ==
  LET string_fields ==
        << KV(Str(<<"r","e","q","u","e","s","t","_","i","d">>), r.request_id.value, FALSE),
           KV(ngx_null_string, ngx_null_string, FALSE) >>
  IN json_write_char(
       json_write_uint_property(
         json_write_char(
           json_write_kv_strings(json_write_char(json_alloc(env.pool), Ord["{"]),
                                 string_fields),
           Ord[","]),
         Str(<<"r","e","s","p","o","n","s","e","_","c","o","d","e">>),
         r.headers_out.status),
       Ord[","])

(* The response document as ngx_akita_start_response_body leaves it: open
   inside the string literal of the body. *)
response_document(r, c, env) ==
  json_write_char(
    json_write_char(
      json_write_string_literal(
        time_field(
          json_write_char(
            ngx_akita_write_headers_list(response_fields(r, env),
                                         extra_headers(r.headers_out)),
            Ord[","]),
          Str(<<"r","e","s","p","o","n","s","e","_","s","t","a","r","t">>),
          c.response_start),
        Str(<<"b","o","d","y">>)),
      Ord[":"]),
    34)

(* The end of ngx_akita_start_response_body, j being the document. *)
start_written(j, c, out) ==
  IF j.oom THEN StartResult(NGX_ERROR, FALSE, c, out)
  ELSE StartResult(NGX_OK, FALSE,
                   [c EXCEPT !.response_json = j, !.response_body_size = 0], out)

(* ngx_akita_start_response_body.  r.headers_out is the real response. *)
ngx_akita_start_response_body(r, c, env) ==
  IF ~env.json_alloc THEN StartResult(NGX_ERROR, FALSE, c, r.headers_out)
  ELSE IF ~r.request_id.found THEN StartResult(NGX_ERROR, FALSE, c, r.headers_out)
  ELSE IF start_undefined(r.headers_out, env) /\ env.ub = "crash"
  THEN StartResult(NGX_ERROR, TRUE, c, r.headers_out)
  ELSE start_written(response_document(r, c, env), c, r.headers_out)

(* What a filter leaves behind.  log: its steps in order, "next" being the
   call of the next filter; ret: the value it returns. *)
FilterResult(c, crash, log, ret, subs, send, headers_out) ==
  [ctx |-> c, crashed |-> crash, log |-> log, ret |-> ret, subs |-> subs,
   send |-> send, headers_out |-> headers_out]

(* ngx_http_akita_response_header_filter after
   ngx_akita_start_response_body has returned, s being what the call left. *)
header_filter_started(s, c1, env) ==
  IF s.crashed
  THEN FilterResult(c1, TRUE, <<"start">>, NGX_ERROR, <<>>, NoSend, s.headers_out)
  ELSE IF s.rc # NGX_OK
  THEN FilterResult([s.ctx EXCEPT !.enabled = FALSE], FALSE, <<"start", "next">>,
                    env.next_rc, <<>>, NoSend, s.headers_out)
  ELSE FilterResult(s.ctx, FALSE, <<"start", "next">>,
                    env.next_rc, <<>>, NoSend, s.headers_out)

(* A header filter that waits for the request side to be over. *)
header_filter_after_request(is_main, c, config, r, now, env) ==
  IF ~is_main \/ ~config.enabled \/ ~c.exists \/ c.status # NGX_DECLINED
  THEN FilterResult(c, FALSE, <<"next">>, env.next_rc, <<>>, NoSend, r.headers_out)
  ELSE header_filter_started(
         ngx_akita_start_response_body(
           r, [c EXCEPT !.response_start = now, !.enabled = TRUE], env),
         [c EXCEPT !.response_start = now, !.enabled = TRUE], env)

(* ngx_http_akita_response_header_filter.  env.next_rc: what
   ngx_http_next_header_filter returns. *)
ngx_http_akita_response_header_filter(is_main, c, config, r, now, env) ==
  IF ~is_main \/ ~config.enabled \/ ~c.exists
  THEN FilterResult(c, FALSE, <<"next">>, env.next_rc, <<>>, NoSend, r.headers_out)
  ELSE header_filter_started(
         ngx_akita_start_response_body(
           r, [c EXCEPT !.response_start = now, !.enabled = TRUE], env),
         [c EXCEPT !.response_start = now, !.enabled = TRUE], env)

(* ngx_akita_append_response_body after json_escape_buf has returned, e
   being what the call left: the context's document and byte count are
   updated in place, whatever the result. *)
append_escaped(e, c) ==
  [ctx |-> [c EXCEPT !.response_json = e.j, !.response_body_size = e.total_size],
   rc |-> IF e.rc # NGX_OK THEN e.rc
          ELSE IF e.j.oom THEN NGX_ERROR
          ELSE NGX_OK]

ngx_akita_append_response_body(c, config, io, buf) ==
  append_escaped(json_escape_buf(c.response_json, io, config.max_body_size,
                                 c.response_body_size, buf),
                 c)

(* The truncated member without the comma after it. *)
finish_truncated_no_comma(j, c, config) ==
  Do(<<j, IF c.response_body_size > config.max_body_size
          THEN json_write_uint_property(
                 j, Str(<<"t","r","u","n","c","a","t","e","d">>),
                 c.response_body_size)
          ELSE j>>)

(* "Mark if the body was truncated, and its actual size" *)
finish_truncated(j, c, config) ==
  Do(<<j, IF c.response_body_size > config.max_body_size
          THEN json_write_char(
                 json_write_uint_property(
                   j, Str(<<"t","r","u","n","c","a","t","e","d">>),
                   c.response_body_size),
                 Ord[","])
          ELSE j>>)

(* The document of ngx_akita_finish_response_body. *)
finish_document(c, config) ==
  json_write_char(
    json_write_time_literal(
      json_write_char(
        json_write_string_literal(
          finish_truncated(
            json_write_char(json_write_char(c.response_json, 34), Ord[","]),
            c, config),
          Str(<<"r","e","s","p","o","n","s","e","_","c","o","m","p","l","e","t","e">>)),
        Ord[":"]),
      c.response_complete),
    Ord["}"])

(* What ngx_akita_finish_response_body leaves, s being the result of the
   sending: ctx->response_json is the document itself. *)
finish_sent(s, c) == [ctx |-> [c EXCEPT !.response_json = s.j], send |-> s]

(* ngx_akita_finish_response_body *)
ngx_akita_finish_response_body(c, agent_path, config, env) ==
  finish_sent(send_json(finish_document(c, config), agent_path, env.api), c)

(* The loop of ngx_http_akita_response_body_filter over the chain, from
   its i-th link. *)
LoopResult(c, crash, log, subs, send) ==
  [ctx |-> c, crashed |-> crash, log |-> log, subs |-> subs, send |-> send]

(* The filter after ngx_akita_finish_response_body has returned, f being
   what the call left. *)
filter_finished(f, log) ==
  IF f.send.crashed
  THEN LoopResult(f.ctx, TRUE, log \o <<"append", "finish">>, f.send.subs, f.send)
  ELSE IF f.send.rc # NGX_OK
  THEN LoopResult([f.ctx EXCEPT !.enabled = FALSE], FALSE,
                  log \o <<"append", "finish">>, f.send.subs, f.send)
  ELSE LoopResult(f.ctx, FALSE, log \o <<"append", "finish">>, f.send.subs, f.send)

(* Every buffer taken for the final one. *)
every_buf_last(buf) == TRUE

(* "if (curr->buf->last_buf)" *)
buf_is_last(buf) == buf.last_buf

RECURSIVE filter_loop(_, _, _, _, _, _, _)
RECURSIVE filter_appended(_, _, _, _, _, _, _)
filter_loop(c, config, chain, i, now, env, log) ==
  IF i > Len(chain) THEN LoopResult(c, FALSE, log, <<>>, NoSend)
  ELSE filter_appended(ngx_akita_append_response_body(c, config, env.io, chain[i]),
                       config, chain, i, now, env, log)

(* The loop after the i-th call of ngx_akita_append_response_body, a being
   what the call left. *)
filter_appended(a, config, chain, i, now, env, log) ==
  IF a.rc # NGX_OK
  THEN LoopResult([a.ctx EXCEPT !.enabled = FALSE], FALSE,
                  log \o <<"append_failed">>, <<>>, NoSend)
  ELSE IF buf_is_last(chain[i])
  THEN IF ~env.callback_alloc
       THEN LoopResult([a.ctx EXCEPT !.response_complete = now, !.enabled = FALSE],
                       FALSE, log \o <<"append", "callback_failed">>, <<>>, NoSend)
       ELSE filter_finished(
              ngx_akita_finish_response_body(
                [a.ctx EXCEPT !.response_complete = now],
                ngx_http_akita_response_location, config, env),
              log)
  ELSE filter_loop(a.ctx, config, chain, i + 1, now, env, log \o <<"append">>)

(* The pool's answers hold for the duration of one handler call. *)
WithPool(c, pool) ==
  IF IsNull(c.response_json) THEN c ELSE [c EXCEPT !.response_json.pool = pool]

(* ngx_http_akita_response_body_filter after its loop, l being what the
   loop left. *)
body_filter_looped(l, env) ==
  IF l.crashed
  THEN FilterResult(WithPool(l.ctx, NoPool), TRUE, l.log, NGX_ERROR, l.subs, l.send, <<>>)
  ELSE FilterResult(WithPool(l.ctx, NoPool), FALSE, l.log \o <<"next">>, env.next_rc,
                    l.subs, l.send, <<>>)

(* ngx_http_akita_response_body_filter.  env.next_rc: what
   ngx_http_next_body_filter returns. *)
ngx_http_akita_response_body_filter(is_main, c, config, chain, now, env) ==
  IF ~is_main \/ ~config.enabled \/ ~c.exists \/ ~c.enabled
  THEN FilterResult(c, FALSE, <<"next">>, env.next_rc, <<>>, NoSend, <<>>)
  ELSE body_filter_looped(
         filter_loop(WithPool(c, env.pool), config, chain, 1, now, env, <<>>), env)

----------------------------------------------------------------------------
(* The host pipeline around one main request at one location. *)

(* Calls of the body filter on the real response. *)
MaxBodyCalls == 2

(* akita_max_body_size of the location. *)
ConfMaxSizes == {2}

(* What can go wrong in a handler call; one thing per call. *)
ApiFaults ==
  {"subrequest_special", "subrequest_error", "request_body", "header_list",
   "content_length", "content_type", "sub_ctx"}
ReadFaults == {"palloc", "read_error"}
PrecontentFaults == {"none", "ctx_alloc", "read_special"}
HeaderFaults ==
  {"none", "json_alloc", "request_id", "length_buf", "time_buf", "list", "grow"}

(* What the next filter of the host may return. *)
NextRcs == {NGX_OK, NGX_ERROR}


(* Faults whose effect is undefined behaviour, and faults that leave part
   of the scratch buffer unwritten. *)
UBFaults == {"subrequest_error", "header_list", "length_buf", "time_buf", "list"}
JunkFaults == {"read_one", "read_none"}

(* The conditions of a handler call in which `fault` goes wrong. *)
Env(fault, ub, junk, next_rc) ==
  [fault |-> fault,
   ctx_alloc |-> fault # "ctx_alloc",
   read_rc |-> IF fault = "read_special" THEN NGX_HTTP_INTERNAL_SERVER_ERROR ELSE NGX_OK,
   callback_alloc |-> fault # "callback_alloc",
   json_alloc |-> fault # "json_alloc",
   pool |-> IF fault = "grow" THEN [fail |-> {1}, n |-> 0] ELSE NoPool,
   io |-> [palloc |-> fault # "palloc",
           read |-> CASE fault = "read_error" -> "error"
                      [] fault = "read_one" -> "one"
                      [] fault = "read_none" -> "none"
                      [] OTHER -> "all",
           junk |-> junk],
   api |-> [subrequest |-> CASE fault = "subrequest_special" -> "special"
                             [] fault = "subrequest_error" -> "error"
                             [] OTHER -> "ok",
            fail |-> CASE fault = "sub_ctx" -> "ctx"
                       [] fault \in {"request_body", "header_list", "content_length",
                                     "content_type"} -> fault
                       [] OTHER -> "none",
            ub |-> ub],
   hdr_fail |-> IF fault \in {"length_buf", "time_buf", "list"} THEN fault ELSE "none",
   ub |-> ub,
   upstream_create |-> fault # "upstream_create",
   next_rc |-> next_rc]

(* A request id that is taken without the test of not_found. *)
RequestIdNotTested(fault) == [found |-> TRUE, value |-> Str(<<"a","1">>)]

RequestId(fault) == [found |-> fault # "request_id", value |-> Str(<<"a","1">>)]

(* Request bodies as the body callback finds them: discarded (NULL), empty,
   in memory, in memory and in a file, in a file. *)
RequestBodies ==
  { [null |-> TRUE, bufs |-> <<>>],
    [null |-> FALSE, bufs |-> <<>>],
    [null |-> FALSE, bufs |-> <<Chunk("memory", 0, 2)>>],
    [null |-> FALSE, bufs |-> <<Chunk("memory", 0, 2), Chunk("file", 2, 2)>>],
    [null |-> FALSE, bufs |-> <<Chunk("file", 0, 4)>>] }

(* A header whose value has n bytes. *)
LongHeader(n) == Header(Str(<<"L">>), [i \in 1..n |-> 120])

HostHeader == Header(Str(<<"H","o","s","t">>), Str(<<"h">>))

Request(has_host, internal, body, fault) ==
  [request_id |-> RequestId(fault),
   method_name |-> Str(<<"G","E","T">>),
   uri |-> Str(<<"/","a">>),
   host |-> [null |-> ~has_host, value |-> IF has_host THEN Str(<<"h">>) ELSE <<>>],
   internal |-> internal,
   headers |-> (IF has_host THEN <<HostHeader>> ELSE <<>>)
               \o <<Header(Str(<<"X">>), Str(<<"\"">>))>>
               \o (IF fault = "grow" THEN <<LongHeader(json_initial_size)>> ELSE <<>>),
   request_body |-> body]

(* Real responses as the header filter finds them. *)
HeadersOut(status, content_type, content_length_n, last_modified_time, headers) ==
  [status |-> status, content_type |-> content_type,
   content_length_n |-> content_length_n,
   last_modified_time |-> last_modified_time, headers |-> headers]

NoHeadersOut == HeadersOut(0, <<>>, -1, -1, <<>>)

ResponseHeads ==
  { HeadersOut(204, <<>>, -1, -1, <<>>),
    HeadersOut(200, Str(<<"t">>), 4, -1, <<Header(Str(<<"E","T","a","g">>), Str(<<"e">>))>>),
    HeadersOut(200, Str(<<"t">>), -1, 86400, <<>>) }

(* A response whose headers leave two bytes of the first buffer of the
   document free, and one whose headers do not fit the buffer. *)
FullHeads == { HeadersOut(200, <<>>, -1, -1, <<LongHeader(json_initial_size - 134)>>) }
LongHeads == { HeadersOut(200, <<>>, -1, -1, <<LongHeader(json_initial_size)>>) }

(* The response the host makes up when the pre-content phase fails. *)
ErrorHeads == { HeadersOut(500, Str(<<"t">>), 4, -1, <<>>) }

(* The responses of a headers event.  The long documents are kept few: the
   nearly full one is built for requests whose own message has gone out
   and has been answered. *)
HeadsFor(env, content, settled) ==
  IF env.fault = "grow" THEN LongHeads
  ELSE IF ~content THEN ErrorHeads
  ELSE IF settled /\ env.fault = "none" /\ env.next_rc = NGX_OK
  THEN ResponseHeads \cup FullHeads
  ELSE ResponseHeads

(* Chains the body filter is called with while the response body is being
   sent, `seen` bytes of it having passed already. *)
LastBuf(buf) == [buf EXCEPT !.last_buf = TRUE]
ResponseChains(seen) ==
  { <<>>,
    <<Chunk("memory", seen, 2)>>,
    <<Chunk("file", seen, 2)>>,
    <<Chunk("sync", seen, 0)>>,
    <<Chunk("last", seen, 0)>>,
    <<LastBuf(Chunk("memory", seen, 1))>>,
    <<Chunk("memory", seen, 2), Chunk("file", seen + 2, 2)>>,
    <<Chunk("file", seen, 1), Chunk("last", seen + 1, 0)>> }

(* Chains a producer hands to the body filter after the chain with the
   final marker: a flush, one more buffer of data, one more final marker. *)
LateChains(seen) ==
  { <<>>, <<Chunk("memory", seen, 1)>>, <<Chunk("last", seen, 0)>> }

HasFile(chain) == \E i \in 1..Len(chain) : ~chain[i].in_memory /\ chain[i].in_file

(* The faults a call can meet: a read fault needs a file-backed buffer, a
   fault of the dispatch needs a document to dispatch. *)
CallbackFaults(body) ==
  {"none", "callback_alloc", "json_alloc", "request_id", "grow"} \cup ApiFaults
  \cup (IF HasFile(body.bufs) THEN ReadFaults ELSE {})
GrowFaults(j) ==
  IF ~IsNull(j) /\ Len(j.chain[j.tail].data) + 2 >= j.chain[j.tail].size
  THEN {"grow"} ELSE {}
BodyFilterFaults(chain) ==
  {"none"} \cup (IF HasFile(chain) THEN ReadFaults ELSE {})
  \cup (IF \E i \in 1..Len(chain) : chain[i].last_buf
        THEN {"callback_alloc"} \cup ApiFaults ELSE {})

RECURSIVE ChainSize(_, _)
ChainSize(chain, i) ==
  IF i > Len(chain) THEN 0 ELSE ngx_buf_size(chain[i]) + ChainSize(chain, i + 1)

HasLastBuf(chain) == \E i \in 1..Len(chain) : chain[i].last_buf

(* What the pipeline has seen of the response: stage is "none" before the
   headers, "headers" once the header filter has run, "done" once a chain
   with the last buffer went through the body filter; seen and calls count
   the bytes and the calls of the body filter; broken: a write to the
   response document has failed; disabled: a failure of the capture has
   switched the session off; finalized: the document has been closed and
   handed over. *)
NoResp ==
  [stage |-> "none", seen |-> 0, calls |-> 0, broken |-> FALSE, disabled |-> FALSE,
   finalized |-> FALSE]

(* The observation of a handler call. *)
NoLast ==
  [op |-> "none", main |-> TRUE, fault |-> "none", returned |-> TRUE, ret |-> NGX_OK,
   log |-> <<>>, resumed |-> FALSE, send_called |-> FALSE, send_rc |-> NGX_OK,
   handed |-> FALSE, doc |-> <<>>, doc_length |-> 0, doc_oom |-> FALSE,
   body_total |-> 0, enabled_before |-> FALSE, wrote |-> FALSE,
   finalized_before |-> FALSE, disabled_before |-> FALSE,
   kind |-> <<FALSE, FALSE>>,
   chain |-> <<>>, next_chain |-> <<>>, chain_after |-> <<>>,
   next_rc |-> NGX_OK, headers_before |-> NoHeadersOut, headers_after |-> NoHeadersOut,
   status |-> 0, severity |-> "none", first |-> FALSE, subs |-> <<>>]

(* The context a subrequest carries into the handlers. *)
SubCtx(sub) == IF sub.upstream THEN [ZeroCtx EXCEPT !.subrequest_upstream = TRUE] ELSE NoCtx

RemoveAt(seq, i) == SubSeq(seq, 1, i - 1) \o SubSeq(seq, i + 1, Len(seq))

(* The conditions a handler call may meet, one fault at a time.  The next
   filter returns rcs when nothing goes wrong and NGX_AGAIN when something
   does. *)
Scenarios(faults, rcs) ==
  UNION { { Env(f, ub, junk, rc) :
              ub \in (IF f \in UBFaults THEN UBOutcomes ELSE {"benign"}),
              junk \in (IF f \in JunkFaults THEN JunkBytes ELSE {0}),
              rc \in (IF f = "none" THEN rcs ELSE {NGX_AGAIN}) } : f \in faults }

(* What the pipeline keeps of a subrequest: "posted" until its pre-content
   phase has run, "running" until it completes. *)
RECURSIVE Posted(_, _)
Posted(subs, i) ==
  IF i > Len(subs) THEN <<>>
  ELSE <<[uri |-> subs[i].uri, upstream |-> subs[i].upstream, stage |-> "posted"]>>
       \o Posted(subs, i + 1)

(* Posted subrequests run before the next event of the main request. *)
NonePosted == \A i \in 1..Len(inflight) : inflight[i].stage # "posted"

(* The host is in its event loop: no handler call is being observed. *)
Idle == ~crashed /\ last.op = "none"

MainEvent == Idle /\ NonePosted

Handed(called, send, path) ==
  [sent EXCEPT ![path] = IF send.handed THEN Min(@ + 1, 2) ELSE @,
               !.failed = IF called /\ ~send.crashed /\ send.rc # NGX_OK
                          THEN Min(@ + 1, 2) ELSE @]

----------------------------------------------------------------------------
(* The handlers as the host calls them. *)

PrecontentMain(env) ==
  LET p == ngx_http_akita_precontent_handler(TRUE, ctx, conf, Now(clock), env)
  IN /\ MainEvent
     /\ pc = "phases"
     /\ ctx' = p.ctx
     /\ pc' = CASE p.ret = NGX_DECLINED -> "content"
                [] p.ret = NGX_DONE -> "waiting"
                [] p.ret = NGX_ERROR -> "error"
                [] OTHER -> "special"
     /\ last' = [NoLast EXCEPT !.op = "precontent", !.fault = env.fault, !.ret = p.ret,
                               !.first = (conf.enabled /\ ~ctx.exists),
                               !.status = p.ctx.status]
     /\ clock' = clock + 1
     /\ UNCHANGED <<conf, resp, inflight, crashed, sent, cap, w>>

(* The host after ngx_http_akita_body_callback, b being what the call left. *)
BodyCallbackReturns(b, kind, body, env) ==
  /\ ctx' = b.ctx
  /\ pc' = IF b.resumed THEN "phases" ELSE "held"
  /\ crashed' = b.crashed
  /\ inflight' = inflight \o Posted(b.send.subs, 1)
  /\ sent' = Handed(b.sent, b.send, "request")
  /\ last' = [NoLast EXCEPT !.op = "body_callback", !.fault = env.fault,
                            !.returned = ~b.crashed, !.log = b.log,
                            !.resumed = b.resumed, !.send_called = b.sent,
                            !.send_rc = b.send.rc, !.handed = b.send.handed,
                            !.doc = DocData(b.send.j),
                            !.doc_length = b.send.j.content_length,
                            !.doc_oom = b.send.j.oom,
                            !.body_total = ChainSize(body.bufs, 1),
                            !.kind = kind,
                            !.subs = b.send.subs,
                            !.chain = body.bufs,
                            !.status = b.ctx.status]
  /\ clock' = clock + 1
  /\ UNCHANGED <<conf, resp, cap, w>>

BodyCallback(has_host, internal, body, env) ==
  /\ MainEvent
  /\ pc = "waiting"
  /\ BodyCallbackReturns(
       ngx_http_akita_body_callback(ctx, Request(has_host, internal, body, env.fault),
                                    conf, Now(clock), env),
       <<has_host, internal>>, body, env)

(* The header filters have answered with a response code instead of
   sending the headers. *)
Refused(f) == ~f.crashed /\ f.ret >= NGX_HTTP_SPECIAL_RESPONSE

(* The host after ngx_http_akita_response_header_filter, f being what the
   call left. *)
HeaderFilterReturns(f, head, env) ==
  /\ ctx' = WithPool(f.ctx, NoPool)
  /\ resp' = [NoResp EXCEPT !.stage = IF Refused(f) THEN "none" ELSE "headers",
                            !.disabled = \/ resp.disabled
                                         \/ ~f.crashed /\ ~f.ctx.enabled /\ f.log[1] = "start"]
  /\ pc' = IF Refused(f) THEN "special" ELSE pc
  /\ crashed' = f.crashed
  /\ last' = [NoLast EXCEPT !.op = "header_filter", !.fault = env.fault,
                            !.returned = ~f.crashed, !.log = f.log, !.ret = f.ret,
                            !.next_rc = env.next_rc,
                            !.headers_before = head, !.headers_after = f.headers_out,
                            !.enabled_before = ctx.enabled,
                            !.disabled_before = resp.disabled,
                            !.wrote = (DocData(f.ctx.response_json)
                                         # DocData(ctx.response_json)),
                            !.status = f.ctx.status]
  /\ clock' = clock + 1
  /\ UNCHANGED <<conf, inflight, sent, cap, w>>

HeaderFilter(head, env) ==
  /\ MainEvent
  /\ pc \in {"content", "special", "error"}
  /\ resp.stage = "none"
  /\ HeaderFilterReturns(
       ngx_http_akita_response_header_filter(
         TRUE, ctx, conf, [request_id |-> RequestId(env.fault), headers_out |-> head],
         Now(clock), env),
       head, env)

(* The host after ngx_http_akita_response_body_filter, f being what the
   call left. *)
BodyFilterReturns(f, chain, env) ==
  /\ ctx' = f.ctx
  /\ resp' = [stage |-> IF HasLastBuf(chain) THEN "done" ELSE resp.stage,
              seen |-> resp.seen + ChainSize(chain, 1),
              calls |-> resp.calls + 1,
              broken |-> \/ resp.broken
                         \/ f.ctx.response_json.oom
                         \/ \E i \in 1..Len(f.log) : f.log[i] = "append_failed",
              disabled |-> resp.disabled \/ (ctx.enabled /\ ~f.ctx.enabled),
              finalized |-> resp.finalized \/ f.send.handed]
  /\ crashed' = f.crashed
  /\ inflight' = inflight \o Posted(f.subs, 1)
  /\ sent' = Handed(f.send # NoSend, f.send, "response")
  /\ last' = [NoLast EXCEPT !.op = "body_filter", !.fault = env.fault,
                            !.returned = ~f.crashed, !.log = f.log, !.ret = f.ret,
                            !.next_rc = env.next_rc,
                            !.send_called = (f.send # NoSend),
                            !.send_rc = f.send.rc, !.handed = f.send.handed,
                            !.doc = DocData(f.send.j),
                            !.doc_length = f.send.j.content_length,
                            !.doc_oom = f.send.j.oom,
                            !.subs = f.subs,
                            !.enabled_before = ctx.enabled,
                            !.finalized_before = resp.finalized,
                            !.disabled_before = resp.disabled,
                            !.wrote = (DocData(f.ctx.response_json)
                                         # DocData(ctx.response_json)),
                            !.body_total = resp.seen + ChainSize(chain, 1),
                            !.chain = chain, !.next_chain = chain, !.chain_after = chain,
                            !.status = f.ctx.status]
  /\ clock' = clock + 1
  /\ UNCHANGED <<conf, pc, cap, w>>

BodyFilter(chain, env) ==
  /\ MainEvent
  /\ pc # "aborted"
  /\ resp.stage # "none"
  /\ resp.calls < MaxBodyCalls
  /\ chain \in (IF resp.stage = "headers" THEN ResponseChains(resp.seen)
                ELSE LateChains(resp.seen))
  /\ BodyFilterReturns(
       ngx_http_akita_response_body_filter(TRUE, ctx, conf, chain, Now(clock), env),
       chain, env)

(* The handlers on the i-th subrequest in flight: its pre-content phase,
   the filters on the agent's response, and its completion. *)
SubPrecontent(i, env) ==
  LET sub == inflight[i]
      p == ngx_http_akita_precontent_handler(FALSE, SubCtx(sub), conf, ZeroTime, env)
  IN /\ Idle
     /\ i \in 1..Len(inflight)
     /\ sub.stage = "posted"
     /\ inflight' = [inflight EXCEPT ![i].stage = "running"]
     /\ last' = [NoLast EXCEPT !.op = "precontent", !.main = FALSE, !.fault = env.fault,
                               !.ret = p.ret]
     /\ UNCHANGED <<conf, pc, ctx, resp, crashed, sent, cap, w, clock>>

(* The host after a filter has run on the response to a subrequest, f
   being what the filter left. *)
SubHeaderFilterReturns(f, head, env) ==
  /\ UNCHANGED inflight
  /\ last' = [NoLast EXCEPT !.op = "header_filter", !.main = FALSE, !.fault = env.fault,
                            !.log = f.log, !.ret = f.ret, !.next_rc = env.next_rc,
                            !.headers_before = head, !.headers_after = f.headers_out]
  /\ UNCHANGED <<conf, pc, ctx, resp, crashed, sent, cap, w, clock>>

SubBodyFilterReturns(f, chain, env) ==
  /\ UNCHANGED inflight
  /\ last' = [NoLast EXCEPT !.op = "body_filter", !.main = FALSE, !.fault = env.fault,
                            !.log = f.log, !.ret = f.ret, !.next_rc = env.next_rc,
                            !.chain = chain, !.next_chain = chain, !.chain_after = chain]
  /\ UNCHANGED <<conf, pc, ctx, resp, crashed, sent, cap, w, clock>>

SubHeaderFilter(i, head, env) ==
  /\ Idle
  /\ i \in 1..Len(inflight)
  /\ inflight[i].stage = "running"
  /\ SubHeaderFilterReturns(
       ngx_http_akita_response_header_filter(
         FALSE, SubCtx(inflight[i]), conf,
         [request_id |-> RequestId(env.fault), headers_out |-> head], ZeroTime, env),
       head, env)

SubBodyFilter(i, chain, env) ==
  /\ Idle
  /\ i \in 1..Len(inflight)
  /\ inflight[i].stage = "running"
  /\ SubBodyFilterReturns(
       ngx_http_akita_response_body_filter(FALSE, SubCtx(inflight[i]), conf, chain,
                                           ZeroTime, env),
       chain, env)

(* Statuses and results a subrequest may complete with. *)
SubStatuses == {200, 502}
SubRcs == {NGX_OK, NGX_ERROR}

SubrequestCallback(i, status, rc) ==
  LET sub == inflight[i]
      s == ngx_http_akita_subrequest_callback(status, rc)
  IN /\ Idle
     /\ i \in 1..Len(inflight)
     /\ sub.stage = "running"
     /\ inflight' = RemoveAt(inflight, i)
     /\ last' = [NoLast EXCEPT !.op = "subrequest_callback", !.main = FALSE,
                               !.ret = s.ret, !.severity = s.severity,
                               !.status = status, !.send_rc = rc]
     /\ UNCHANGED <<conf, pc, ctx, resp, crashed, sent, cap, w, clock>>

(* The host takes the handler's result and goes back to its event loop. *)
(* The request ends before its time: the client has gone, the host frees
   the request with its subrequests and calls no handler of the module,
   which registers no cleanup. *)
Abort ==
  /\ Idle
  /\ pc # "aborted"
  /\ pc' = "aborted"
  /\ inflight' = <<>>
  /\ UNCHANGED <<conf, ctx, resp, last, crashed, sent, cap, w, clock>>

Continue ==
  /\ last.op # "none"
  /\ last' = NoLast
  /\ UNCHANGED <<conf, pc, ctx, resp, inflight, crashed, sent, cap, w, clock>>

----------------------------------------------------------------------------
(* The conditions of a headers event.  A later header filter may answer
   the first one of a request with a response code, as the range filter
   does for a range it cannot satisfy, also when the capture has failed to
   start; the host then makes up that response and sends its headers
   through the filters again, which is the second event (again). *)
HeaderScenarios(first, again) ==
  IF again THEN Scenarios({"none"}, {NGX_OK})
  ELSE Scenarios(HeaderFaults, NextRcs)
         \cup (IF first
               THEN {Env("request_id", "benign", 0, NGX_HTTP_INTERNAL_SERVER_ERROR)}
               ELSE {})

(* Requests as the body callback finds them. *)
RequestKinds == BOOLEAN \X BOOLEAN

Init ==
  /\ conf \in [enabled : BOOLEAN, max_body_size : ConfMaxSizes]
  /\ pc = "phases"
  /\ ctx = NoCtx
  /\ resp = NoResp
  /\ inflight = <<>>
  /\ last = NoLast
  /\ crashed = FALSE
  /\ sent = [request |-> 0, response |-> 0, failed |-> 0]
  /\ cap = CapIdle
  /\ w = WriterIdle
  /\ clock = 0

Next ==
  \/ \E env \in Scenarios(PrecontentFaults, {NGX_OK}) : PrecontentMain(env)
  \/ \E kind \in RequestKinds, body \in RequestBodies :
       \E env \in Scenarios(CallbackFaults(body), {NGX_OK}) :
         BodyCallback(kind[1], kind[2], body, env)
  \/ \E env \in HeaderScenarios(pc = "content", resp.disabled) :
       \E head \in HeadsFor(env, pc = "content",
                             inflight = <<>> /\ sent.request = 1 /\ sent.failed = 0) :
         HeaderFilter(head, env)
  \/ \E chain \in ResponseChains(resp.seen) \cup LateChains(resp.seen) :
       \E env \in Scenarios(BodyFilterFaults(chain) \cup GrowFaults(ctx.response_json),
                            NextRcs) :
         BodyFilter(chain, env)
  \/ \E i \in 1..Len(inflight), env \in Scenarios({"none", "upstream_create"}, {NGX_OK}) :
       SubPrecontent(i, env)
  \/ \E i \in 1..Len(inflight), env \in Scenarios({"none"}, NextRcs) :
       SubHeaderFilter(i, HeadersOut(200, <<>>, 0, -1, <<>>), env)
  \/ \E i \in 1..Len(inflight), env \in Scenarios({"none"}, NextRcs) :
       SubBodyFilter(i, <<Chunk("last", 0, 0)>>, env)
  \/ \E i \in 1..Len(inflight), status \in SubStatuses, rc \in SubRcs :
       SubrequestCallback(i, status, rc)
  \/ Abort
  \/ Continue

Spec == Init /\ [][Next]_vars

----------------------------------------------------------------------------
(* Body capture on its own: json_escape_buf called chunk after chunk of
   one body, under every capture limit of MaxSizes. *)
InitCapture ==
  /\ conf = [enabled |-> TRUE, max_body_size |-> 0]
  /\ pc = "phases"
  /\ ctx = NoCtx
  /\ resp = NoResp
  /\ inflight = <<>>
  /\ last = NoLast
  /\ crashed = FALSE
  /\ sent = [request |-> 0, response |-> 0, failed |-> 0]
  /\ cap \in {CapInit(max_size) : max_size \in MaxSizes}
  /\ w = WriterIdle
  /\ clock = 0

NextCapture ==
  \E k \in ChunkKinds : \E io \in ChunkIOs(k[1]) : AppendChunk(k[1], k[2], io)

SpecCapture == InitCapture /\ [][NextCapture]_vars

(* The writer under a few calls on documents that are empty or nearly
   full, with a pool that gives or refuses the next buffer. *)
InitWriter ==
  /\ conf = [enabled |-> TRUE, max_body_size |-> 0]
  /\ pc = "phases"
  /\ ctx = NoCtx
  /\ resp = NoResp
  /\ inflight = <<>>
  /\ last = NoLast
  /\ crashed = FALSE
  /\ sent = [request |-> 0, response |-> 0, failed |-> 0]
  /\ cap = CapIdle
  /\ w \in {WriterInit(Filled(pool, fill), MaxWrites) :
               pool \in WriterPools, fill \in WriterFills}
  /\ clock = 0

NextWriter ==
  \/ \E c \in {Ord[","]} : WriteChar(c)
  \/ \E str \in {<<>>, Str(<<"a","\"">>), Str(<<"a","b","c","d","e","f">>),
                  [i \in 1..json_initial_size |-> 120]} :
       WriteStringLiteral(str)
  \/ \E n \in {5} : WriteUintProperty(Str(<<"n">>), n)
  \/ \E tv \in {Now(0)} : WriteTimeLiteral(tv)
  \/ \E kv \in { <<KV(Str(<<"k">>), Str(<<"v">>), FALSE),
                   KV(ngx_null_string, ngx_null_string, FALSE)>> } :
       WriteKvStrings(kv)
  \/ \E size \in {2} : WriteBodyChunk(size)

SpecWriter == InitWriter /\ [][NextWriter]_vars

----------------------------------------------------------------------------
(* The formatting writers on their own, each called once on a new document
   with every input of a bounded set. *)
MaxLen == 3

(* The characters of the strings: quote, backslash, control characters
   with a short escape and without, letters, the two bytes of U+00E9 and
   the three of U+20AC. *)
Alphabet ==
  { <<34>>, <<92>>, <<10>>, <<9>>, <<13>>, <<1>>, <<31>>, <<97>>, <<47>>, <<127>>,
    <<195, 169>>, <<226, 130, 172>> }

RECURSIVE Words(_)
Words(n) ==
  IF n = 0 THEN {<<>>}
  ELSE LET shorter == Words(n - 1)
       IN shorter \cup {word \o c : word \in shorter, c \in Alphabet}

(* The key/value arrays: up to MaxLen entries, any of them omitted, and the
   entry with the null key that ends the array. *)
KvEntries ==
  { KV(key, value, omit) : key \in {Str(<<"k">>), Str(<<"m">>)},
                           value \in {<<>>, Str(<<"v">>), <<34>>},
                           omit \in BOOLEAN }

RECURSIVE KvLists(_)
KvLists(n) ==
  IF n = 0 THEN {<<>>}
  ELSE LET shorter == KvLists(n - 1)
       IN shorter \cup {Append(kv, entry) : kv \in shorter, entry \in KvEntries}

(* Times of the clock: the epoch, one second after it, a leap day, the
   last second of a year, days and months of one and of two digits. *)
Times ==
  { [tv_sec |-> sec, tv_usec |-> usec] :
      sec \in {0, 1, 951782400, 1670416496, 1704067199, 1709251199, 2147483647},
      usec \in {0, 7, 4200, 123456, 999999} }

InitFormat ==
  /\ conf = [enabled |-> TRUE, max_body_size |-> 0]
  /\ pc = "phases"
  /\ ctx = NoCtx
  /\ resp = NoResp
  /\ inflight = <<>>
  /\ last = NoLast
  /\ crashed = FALSE
  /\ sent = [request |-> 0, response |-> 0, failed |-> 0]
  /\ cap = CapIdle
  /\ w = WriterInit(json_alloc(NoPool), 1)
  /\ clock = 0

NextFormat ==
  \/ \E str \in Words(MaxLen) : WriteStringLiteral(str)
  \/ \E kv \in KvLists(MaxLen) :
       WriteKvStrings(Append(kv, KV(ngx_null_string, ngx_null_string, FALSE)))
  \/ \E tv \in Times : WriteTimeLiteral(tv)

SpecFormat == InitFormat /\ [][NextFormat]_vars

----------------------------------------------------------------------------
(* The headers event on its own: the header filter called once on a
   session that the body callback has left, for every response of a
   bounded set: content type empty or not, content length and time of
   last modification unknown, zero or positive, and up to two headers in
   the list. *)
StartHeads ==
  { HeadersOut(200, content_type, content_length_n, last_modified_time, headers) :
      content_type \in {<<>>, Str(<<"t">>)},
      content_length_n \in {-1, 0, 4},
      last_modified_time \in {-1, 0, 86400},
      headers \in { <<>>,
                    <<Header(Str(<<"E","T","a","g">>), Str(<<"e">>))>>,
                    <<Header(Str(<<"E","T","a","g">>), Str(<<"e">>)),
                      Header(Str(<<"V","a","r","y">>), Str(<<"\"">>))>>,
                    <<Header(Str(<<"V","a","r","y">>), Str(<<"\"">>)),
                      Header(Str(<<"E","T","a","g">>), Str(<<"e">>))>> } }

InitStart ==
  /\ conf = [enabled |-> TRUE, max_body_size |-> 2]
  /\ pc = "content"
  /\ ctx = [ZeroCtx EXCEPT !.status = NGX_DECLINED]
  /\ resp = NoResp
  /\ inflight = <<>>
  /\ last = NoLast
  /\ crashed = FALSE
  /\ sent = [request |-> 1, response |-> 0, failed |-> 0]
  /\ cap = CapIdle
  /\ w = WriterIdle
  /\ clock = 2

NextStart ==
  \E head \in StartHeads, env \in Scenarios({"none"}, NextRcs) : HeaderFilter(head, env)

SpecStart == InitStart /\ [][NextStart]_vars

----------------------------------------------------------------------------
(* Properties. *)

CountIn(log, step) == Cardinality({i \in 1..Len(log) : log[i] = step})

(* The call passed on to the next filter exactly once, as its last step,
   and returned what the next filter returned. *)
CalledNextOnce ==
  /\ last.returned
  /\ CountIn(last.log, "next") = 1
  /\ last.log[Len(last.log)] = "next"
  /\ last.ret = last.next_rc

Occurs(sub, seq) ==
  \E i \in 1..(Len(seq) - Len(sub) + 1) : SubSeq(seq, i, i + Len(sub) - 1) = sub

(* "truncated": as it stands in a document. *)
TruncatedKey == Str(<<"\"","t","r","u","n","c","a","t","e","d","\"",":">>)

(* C1: whenever ngx_http_akita_body_callback has run, it has set the
   session status to NGX_DECLINED and re-run the phases of the request,
   whatever happened to the request document, to the allocation of the
   callback structure, and whether or not the request body was there. *)
C1_CallbackAlwaysResumes ==
  last.op = "body_callback" =>
    /\ last.returned
    /\ last.status = NGX_DECLINED
    /\ last.resumed
    /\ pc = "phases"

(* C2: ngx_http_akita_precontent_handler on the real request returns
   NGX_DONE (body being read) or NGX_DECLINED (go on to the real handler),
   never an error status, when something fails inside the mirroring; a
   failure of the host's body read is the host's own. *)
C2_PrecontentNeverFails ==
  (last.op = "precontent" /\ last.main /\ last.fault # "read_special") =>
    last.ret \in {NGX_DONE, NGX_DECLINED}

(* C3: when the dispatch of a document returns an error, or the delivery
   completes with an error or a status other than 200, the handler still
   completes its step of the lifecycle and no error goes back to the host:
   the body callback sets NGX_DECLINED and re-runs the phases, the filters
   pass on to the next filter and return its result, the completion
   callback returns NGX_OK. *)
C3_FailedDispatchIsHarmless ==
  /\ (last.op = "body_callback" /\ last.send_called /\ last.returned
        /\ last.send_rc # NGX_OK)
       => (last.resumed /\ last.status = NGX_DECLINED /\ pc = "phases")
  /\ (last.op = "body_filter" /\ last.main /\ last.send_called /\ last.returned
        /\ last.send_rc # NGX_OK)
       => CalledNextOnce
  /\ (last.op = "header_filter" /\ last.main /\ last.returned /\ sent.failed > 0)
       => CalledNextOnce
  /\ last.op = "subrequest_callback" => last.ret = NGX_OK

(* Both dispatches of a session returned an error, and the response went
   through to its last buffer. *)
C3_Witness ==
  /\ sent.failed = 2
  /\ last.op = "body_filter" /\ last.send_called /\ last.send_rc # NGX_OK
  /\ resp.stage = "done"
  /\ pc = "content"

(* C4: every call of ngx_http_akita_response_body_filter calls the next
   body filter exactly once, after its own work, with the chain it was
   given, and returns that filter's result; the chain is left as it was. *)
C4_NextBodyFilterOnce ==
  last.op = "body_filter" =>
    /\ CalledNextOnce
    /\ last.next_chain = last.chain
    /\ last.chain_after = last.chain

(* C5: every call of ngx_http_akita_response_header_filter calls the next
   header filter exactly once and returns its result, and leaves the
   status and the headers of the real response as they were. *)
C5_NextHeaderFilterOnce ==
  last.op = "header_filter" =>
    /\ CalledNextOnce
    /\ last.headers_after = last.headers_before

(* C6: while the appends on a body succeed, the total-size accumulator is
   the sum of the lengths of all chunks seen, those after the limit was
   reached included. *)
C6_TotalSize == cap.ok => cap.total_size = Len(cap.stream)

(* A chunk with bytes arrived after the limit was reached, as the third. *)
C6_Witness ==
  /\ cap.ok /\ cap.n = 3
  /\ cap.max_size > 0
  /\ cap.call.total_before >= cap.max_size
  /\ cap.call.size > 0

(* C7: while the appends on a body succeed, the raw bytes put in the
   literal are the first min(sum of chunk lengths, max_size) bytes of the
   chunks in order, the document holds their escaped form, and a chunk
   that arrives at or over the limit adds nothing. *)
C7_LiteralIsPrefix ==
  cap.ok =>
    /\ cap.lit = SubSeq(cap.stream, 1, Min(Len(cap.stream), cap.max_size))
    /\ DocData(cap.j) = ngx_escape_json(cap.lit)
    /\ (cap.call.total_before >= cap.max_size => cap.call.raw = <<>>)

(* C8: a document handed to the agent, of the request or of the response,
   has a "truncated" property exactly when the chunks of its body total
   more than max_body_size, and the property's value is that total. *)
C8_TruncatedIffOver ==
  (last.handed /\ last.op \in {"body_callback", "body_filter"}) =>
    IF last.body_total > conf.max_body_size
    THEN \E c \in {Ord[","], Ord["}"]} :
           Occurs(TruncatedKey \o Decimal(last.body_total) \o <<c>>, last.doc)
    ELSE ~Occurs(TruncatedKey, last.doc)

(* A response document whose body went over the limit was handed over. *)
C8_Witness ==
  /\ last.op = "body_filter" /\ last.handed
  /\ last.body_total > conf.max_body_size

(* C9: an append on a file-backed chunk fails when the read fails and
   when it returns fewer bytes than asked for, and puts nothing in the
   literal in either case. *)
C9_ShortReadFails ==
  (cap.call.kind = "file" /\ cap.call.read >= 0 /\ cap.call.num_read < cap.call.read) =>
    /\ cap.call.rc = NGX_ERROR
    /\ cap.call.raw = <<>>

(* C10: a read of a file-backed chunk asks for min(chunk length, max_size -
   bytes already captured) bytes; the reads of one body ask for at most
   max_size bytes in all; no read is made once the limit is reached. *)
C10_ReadIsBounded ==
  /\ cap.call.read >= 0 =>
       /\ cap.call.kind = "file"
       /\ cap.call.read = Min(cap.call.size, cap.max_size - cap.call.lit_before)
  /\ cap.reads <= cap.max_size
  /\ cap.call.total_before >= cap.max_size => cap.call.read = -1

(* A file-backed chunk came when part of the limit was used up, and was
   read only up to the limit. *)
C10_Witness ==
  /\ cap.call.kind = "file"
  /\ cap.call.lit_before > 0
  /\ cap.call.read >= 0
  /\ cap.call.read < cap.call.size

(* C11: the out-of-memory flag of a document is never cleared, and once it
   is set every later writer call leaves the bytes of the chain, its
   buffers and the cumulative length as they were. *)
C11_OomIsStickyAndStopsWrites ==
  (w.call.op # "none" /\ w.call.oom_before) =>
    /\ w.j.oom
    /\ w.call.kept
    /\ w.call.out = <<>>
    /\ Len(w.j.chain) = w.call.bufs_before
    /\ w.j.content_length = w.call.length_before

(* The part of C11 the writer keeps: the flag is never cleared. *)
OomIsSticky == (w.call.op # "none" /\ w.call.oom_before) => w.j.oom

(* C12: a document is handed to the dispatch path only if no write to it
   has failed: not one whose out-of-memory flag is set, and not a response
   document that a failed append or a failed write has left incomplete. *)
C12_FailedDocumentIsNeverHanded ==
  last.handed =>
    /\ ~last.doc_oom
    /\ last.op = "body_filter" => ~resp.broken

(* A sender has been called with a document that had run out of memory and
   has handed nothing over; and a response whose append failed. *)
C12_Witness ==
  /\ last.send_called /\ last.doc_oom /\ ~last.handed /\ last.send_rc = NGX_ERROR
  /\ last.op \in {"body_callback", "body_filter"}

(* C13: the response document is finalized exactly once: after the final
   chunk has closed it and handed it over, no later call of the body filter
   appends to it, closes it again or hands it over again. *)
C13_FinalizedOnce ==
  (last.op = "body_filter" /\ last.finalized_before) =>
    /\ ~last.wrote
    /\ ~last.send_called

(* C14: a response document is handed over only by a call of the body
   filter that processed a buffer with the final marker, on a document the
   headers opened; a request that is aborted before that has sent no
   response message; a request document is handed over only by the body
   callback, the event that the request body is complete. *)
C14_DispatchOnlyWhenComplete ==
  /\ last.handed =>
        \/ last.op = "body_callback"
        \/ /\ last.op = "body_filter"
           /\ HasLastBuf(last.chain)
           /\ ~IsNull(ctx.response_json)
  /\ sent.response > 0 => resp.stage = "done"
  /\ sent.request > 0 => ctx.exists /\ pc # "waiting"
  /\ (pc = "aborted" /\ resp.stage # "done") => sent.response = 0

(* A request was aborted with its response document open and chunks in it
   already. *)
C14_Witness ==
  /\ pc = "aborted"
  /\ resp.stage = "headers" /\ resp.seen > 0
  /\ ~IsNull(ctx.response_json) /\ ctx.enabled
  /\ sent.response = 0 /\ sent.request = 1

(* C15: once a failure of the response capture has disabled the session,
   no later headers event, chunk or final chunk writes to a response
   document or hands one over. *)
C15_DisabledStaysSilent ==
  (last.op \in {"header_filter", "body_filter"} /\ last.disabled_before) =>
    /\ ~last.wrote
    /\ ~last.send_called

(* The part of C15 the body filter keeps: a disabled session skips every
   chunk and every final chunk. *)
DisabledSkipsChunks ==
  (last.op = "body_filter" /\ ~last.enabled_before) =>
    /\ ~last.wrote /\ ~last.send_called /\ last.log = <<"next">>

(* The entries of a key/value array that are to be written: those before
   the null key that are not omitted. *)
Members(kv) == SelectSeq(SubSeq(kv, 1, Len(kv) - 1), LAMBDA entry : ~entry.omit)

Quoted(str) == <<34>> \o ngx_escape_json(str) \o <<34>>

RECURSIVE Joined(_)
Joined(entries) ==
  IF entries = <<>> THEN <<>>
  ELSE (IF Len(entries) = 1 THEN <<>>
        ELSE Joined(SubSeq(entries, 1, Len(entries) - 1)) \o <<44>>)
       \o Quoted(entries[Len(entries)].key) \o <<58>>
       \o Quoted(entries[Len(entries)].value)

(* C16: json_write_kv_strings writes exactly the entries that are not
   omitted, in the order of the array, each as "key":"value", with one
   comma between two of them and none before the first, after the last or
   in the place of an omitted entry; it writes nothing when all are
   omitted. *)
C16_KvStrings ==
  w.call.op = "kv" =>
    /\ w.call.out = Joined(Members(w.call.arg))
    /\ Members(w.call.arg) = <<>> => w.call.out = <<>>

(* An array of three entries whose first and last are omitted. *)
C16_Witness ==
  /\ w.call.op = "kv"
  /\ Len(w.call.arg) = 4
  /\ w.call.arg[1].omit /\ ~w.call.arg[2].omit /\ w.call.arg[3].omit
  /\ w.call.out # <<>>

(* A decoder of JSON string literals (RFC 8259, section 7), over UTF-8:
   what the literal stands for, or that it is none. *)
NoString == [ok |-> FALSE, value |-> <<>>]

Decoded(bytes, rest) ==
  IF rest.ok THEN [ok |-> TRUE, value |-> bytes \o rest.value] ELSE NoString

HexValue(c) ==
  IF c \in 48..57 THEN c - 48
  ELSE IF c \in 65..70 THEN c - 55
  ELSE IF c \in 97..102 THEN c - 87
  ELSE -1

Utf8(cp) ==
  IF cp < 128 THEN <<cp>>
  ELSE IF cp < 2048 THEN <<192 + (cp \div 64), 128 + (cp % 64)>>
  ELSE <<224 + (cp \div 4096), 128 + ((cp \div 64) % 64), 128 + (cp % 64)>>

ShortEscapes ==
  (34 :> 34) @@ (92 :> 92) @@ (47 :> 47) @@ (98 :> 8) @@ (102 :> 12) @@
  (110 :> 10) @@ (114 :> 13) @@ (116 :> 9)

IsTrail(b, i) == i <= Len(b) /\ b[i] \in 128..191

RECURSIVE Unescaped(_, _)
Unescaped(b, i) ==
  IF i > Len(b) THEN [ok |-> TRUE, value |-> <<>>]
  ELSE IF b[i] < 32 \/ b[i] = 34 THEN NoString
  ELSE IF b[i] = 92
  THEN IF i = Len(b) THEN NoString
       ELSE IF b[i + 1] \in DOMAIN ShortEscapes
       THEN Decoded(<<ShortEscapes[b[i + 1]]>>, Unescaped(b, i + 2))
       ELSE IF /\ b[i + 1] = 117
               /\ i + 5 <= Len(b)
               /\ \A k \in 2..5 : HexValue(b[i + k]) >= 0
       THEN Decoded(Utf8(4096 * HexValue(b[i + 2]) + 256 * HexValue(b[i + 3])
                           + 16 * HexValue(b[i + 4]) + HexValue(b[i + 5])),
                    Unescaped(b, i + 6))
       ELSE NoString
  ELSE IF b[i] < 128 THEN Decoded(<<b[i]>>, Unescaped(b, i + 1))
  ELSE IF b[i] \in 194..223 /\ IsTrail(b, i + 1)
  THEN Decoded(SubSeq(b, i, i + 1), Unescaped(b, i + 2))
  ELSE IF b[i] \in 224..239 /\ IsTrail(b, i + 1) /\ IsTrail(b, i + 2)
  THEN Decoded(SubSeq(b, i, i + 2), Unescaped(b, i + 3))
  ELSE NoString

JsonString(lit) ==
  IF Len(lit) < 2 \/ lit[1] # 34 \/ lit[Len(lit)] # 34 THEN NoString
  ELSE Unescaped(SubSeq(lit, 2, Len(lit) - 1), 1)

(* C17: what json_write_string_literal writes for a string is a JSON string
   literal that a decoder maps back to that string. *)
C17_StringRoundTrip ==
  w.call.op = "string" => JsonString(w.call.out) = [ok |-> TRUE, value |-> w.call.arg]

(* A string of a quote, a control character without a short escape, and a
   character of two bytes. *)
C17_Witness ==
  /\ w.call.op = "string"
  /\ w.call.arg = <<34, 1, 195, 169>>
  /\ Len(w.call.out) = 12

(* What C18 says of a call of json_write_string_literal that asked for sz
   bytes, the tail buffer having had room for them or not. *)
WrittenInPlace(sz, tail, had_room) ==
  /\ w.call.kept
  /\ Len(w.j.chain) - w.call.bufs_before \in {0, 1}
  /\ had_room => Len(w.j.chain) = w.call.bufs_before /\ w.call.out # <<>>
  /\ w.j.content_length = w.call.length_before + Len(w.call.out)
  /\ IF w.call.out = <<>>
     THEN w.j.oom /\ Len(w.j.chain) = w.call.bufs_before
     ELSE /\ Len(w.call.out) = sz
          /\ Len(w.j.chain) = w.call.bufs_before + (IF had_room THEN 0 ELSE 1)
          /\ Len(tail.data) = (IF had_room THEN w.call.tail_before ELSE 0) + sz
          /\ Len(tail.data) <= tail.size

(* C18: json_write_string_literal asks for room once, for the length of the
   string plus what escaping adds plus 2, and writes exactly that many
   bytes where it was given room: all of them in one buffer, none past its
   end, the buffer growing before the write or not at all, and the
   cumulative length advancing by the bytes written. *)
C18_StringWrittenInPlace ==
  w.call.op = "string" =>
    WrittenInPlace(Len(w.call.arg) + ngx_escape_json_len(w.call.arg) + 2,
                   w.j.chain[w.j.tail],
                   w.call.tail_before + Len(w.call.arg)
                     + ngx_escape_json_len(w.call.arg) + 2
                       < w.j.chain[w.call.bufs_before].size)

(* A string with a character to escape, written into a new buffer because
   the old one had room for the string but not for its escaped form. *)
C18_Witness ==
  /\ w.call.op = "string"
  /\ w.call.arg = Str(<<"a","\"">>)
  /\ w.call.tail_before = json_initial_size - 5
  /\ Len(w.j.chain) = w.call.bufs_before + 1
  /\ Len(w.call.out) = 5

(* The number a run of decimal digits stands for; -1 if a byte is no digit. *)
RECURSIVE Number(_)
Number(digits) ==
  IF digits = <<>> THEN 0
  ELSE LET front == Number(SubSeq(digits, 1, Len(digits) - 1))
           unit == digits[Len(digits)] - 48
       IN IF front < 0 \/ unit \notin 0..9 THEN -1 ELSE 10 * front + unit

(* Days from 1970-01-01 to a date of the proleptic Gregorian calendar. *)
DaysFromCivil(year, month, day) ==
  LET y == IF month <= 2 THEN year - 1 ELSE year
      yoe == y % 400
      doy == ((153 * (IF month > 2 THEN month - 3 ELSE month + 9) + 2) \div 5) + day - 1
      doe == yoe * 365 + (yoe \div 4) - (yoe \div 100) + doy
  IN (y \div 400) * 146097 + doe - 719468

(* text is "YYYY-MM-DDThh:mm:ss.ffffffZ" in quotes, for the time tv. *)
IsRfc3339Of(text, tv) ==
  /\ Len(text) = 29
  /\ text[1] = 34 /\ text[29] = 34 /\ text[28] = Ord["Z"]
  /\ text[6] = Ord["-"] /\ text[9] = Ord["-"] /\ text[12] = Ord["T"]
  /\ text[15] = Ord[":"] /\ text[18] = Ord[":"] /\ text[21] = Ord["."]
  /\ \A i \in (2..27) \ {6, 9, 12, 15, 18, 21} : text[i] \in 48..57
  /\ Number(SubSeq(text, 22, 27)) = tv.tv_usec
  /\ Number(SubSeq(text, 7, 8)) \in 1..12
  /\ Number(SubSeq(text, 10, 11)) \in 1..31
  /\ Number(SubSeq(text, 13, 14)) \in 0..23
  /\ Number(SubSeq(text, 16, 17)) \in 0..59
  /\ Number(SubSeq(text, 19, 20)) \in 0..59
  /\ DaysFromCivil(Number(SubSeq(text, 2, 5)), Number(SubSeq(text, 7, 8)),
                   Number(SubSeq(text, 10, 11))) * 86400
       + Number(SubSeq(text, 13, 14)) * 3600 + Number(SubSeq(text, 16, 17)) * 60
       + Number(SubSeq(text, 19, 20)) = tv.tv_sec

(* C19: json_write_time_literal writes a time as a quoted RFC 3339 time in
   UTC, with a fraction of exactly six digits, the microseconds padded
   with zeros, and a Z; one second and 123456 microseconds after the epoch
   has the fraction .123456; no more than the 29 bytes reserved are
   written. *)
C19_TimeLiteral ==
  w.call.op = "time" =>
    /\ IsRfc3339Of(w.call.out, w.call.arg)
    /\ Len(w.call.out) <= time_format_len
    /\ w.j.content_length = w.call.length_before + Len(w.call.out)
    /\ w.call.arg = [tv_sec |-> 1, tv_usec |-> 123456] =>
          w.call.out = <<34>> \o Str(<<"1","9","7","0","-","0","1","-","0","1","T",
                                        "0","0",":","0","0",":","0","1",".",
                                        "1","2","3","4","5","6","Z">>) \o <<34>>

(* One second and 123456 microseconds after the epoch has been written. *)
C19_Witness ==
  /\ w.call.op = "time"
  /\ w.call.arg = [tv_sec |-> 1, tv_usec |-> 123456]
  /\ SubSeq(w.call.out, 21, 28) = Str(<<".","1","2","3","4","5","6","Z">>)

(* Reading a JSON text.  A quote is escaped when an odd number of
   backslashes stands before it; the other quotes open and close the
   strings, in turns. *)
RECURSIVE BackslashesBefore(_, _)
BackslashesBefore(doc, k) ==
  IF k = 1 THEN 0
  ELSE IF doc[k - 1] # 92 THEN 0
  ELSE 1 + BackslashesBefore(doc, k - 1)

Quotes(doc) ==
  {k \in 1..Len(doc) : doc[k] = 34 /\ BackslashesBefore(doc, k) % 2 = 0}

Sorted(positions) ==
  [n \in 1..Cardinality(positions) |->
     CHOOSE p \in positions : Cardinality({x \in positions : x < p}) = n - 1]

(* The positions of the strings after their opening quotes, quotes being
   the positions of all quotes in order: the contents and the closing
   quotes. *)
InStrings(quotes) ==
  UNION {(quotes[2 * k - 1] + 1)..quotes[2 * k] : k \in 1..(Len(quotes) \div 2)}

(* The strings of the text, in order, each without its quotes. *)
Strings(doc, quotes) ==
  [k \in 1..(Len(quotes) \div 2) |->
     SubSeq(doc, quotes[2 * k - 1] + 1, quotes[2 * k] - 1)]

(* Inside the strings there is no control character, and every backslash
   that is not itself escaped begins an escape of RFC 8259. *)
StringsAreLiterals(doc, quotes, inside) ==
  /\ Len(quotes) % 2 = 0
  /\ \A i \in inside :
       \/ doc[i] = 34 /\ BackslashesBefore(doc, i) % 2 = 0
       \/ /\ doc[i] >= 32
          /\ (doc[i] = 92 /\ BackslashesBefore(doc, i) % 2 = 0) =>
               \/ doc[i + 1] \in DOMAIN ShortEscapes
               \/ doc[i + 1] = 117 /\ \A k \in 2..5 : HexValue(doc[i + k]) >= 0

(* The skeleton of a response document, every string replaced by its
   opening quote and every digit by 0: the members in their order, the
   code of three digits, the headers an array of objects of two members. *)
RECURSIVE HeaderObjects(_)
HeaderObjects(n) ==
  IF n = 0 THEN <<>>
  ELSE (IF n = 1 THEN <<>> ELSE HeaderObjects(n - 1) \o <<44>>)
       \o <<123, 34, 58, 34, 44, 34, 58, 34, 125>>

ResponseSkeleton(headers, truncated, size) ==
  <<123, 34, 58, 34, 44, 34, 58, 0, 0, 0, 44, 34, 58, 91>>
  \o HeaderObjects(headers)
  \o <<93, 44, 34, 58, 34, 44, 34, 58, 34>>
  \o (IF truncated THEN <<44, 34, 58>> \o [i \in 1..Len(Decimal(size)) |-> 0] ELSE <<>>)
  \o <<44, 34, 58, 34, 125>>

(* The bytes of the text at the positions `outside` are the skeleton. *)
HasSkeleton(doc, outside, skel) ==
  /\ Cardinality(outside) = Len(skel)
  /\ \A i \in outside :
       LET c == skel[Cardinality({x \in outside : x <= i})]
       IN IF c = 0 THEN doc[i] \in 48..57 ELSE doc[i] = c

(* The keys of a response document with `headers` header objects. *)
HasResponseKeys(strings, headers, truncated) ==
  /\ Len(strings) = 4 * headers + (IF truncated THEN 11 ELSE 10)
  /\ strings[1] = Str(<<"r","e","q","u","e","s","t","_","i","d">>)
  /\ strings[3] = Str(<<"r","e","s","p","o","n","s","e","_","c","o","d","e">>)
  /\ strings[4] = Str(<<"h","e","a","d","e","r","s">>)
  /\ \A h \in 1..headers :
       /\ strings[4 * h + 1] = Str(<<"h","e","a","d","e","r">>)
       /\ strings[4 * h + 3] = Str(<<"v","a","l","u","e">>)
  /\ strings[4 * headers + 5]
       = Str(<<"r","e","s","p","o","n","s","e","_","s","t","a","r","t">>)
  /\ strings[4 * headers + 7] = Str(<<"b","o","d","y">>)
  /\ truncated => strings[4 * headers + 9] = Str(<<"t","r","u","n","c","a","t","e","d">>)
  /\ strings[Len(strings) - 1]
       = Str(<<"r","e","s","p","o","n","s","e","_","c","o","m","p","l","e","t","e">>)

IsResponseDocument(doc, quotes, inside, headers, truncated, size) ==
  /\ StringsAreLiterals(doc, quotes, inside)
  /\ HasSkeleton(doc, (1..Len(doc)) \ inside, ResponseSkeleton(headers, truncated, size))
  /\ HasResponseKeys(Strings(doc, quotes), headers, truncated)

(* The number of header objects is read from the text: each has two
   members, the document has six or seven more. *)
ResponseDocumentIn(doc, quotes, truncated, size) ==
  IsResponseDocument(doc, quotes, InStrings(quotes),
                     (Len(quotes) \div 2 - (IF truncated THEN 11 ELSE 10)) \div 4,
                     truncated, size)

(* The first response document of a request has been handed over. *)
ResponseSent == last.op = "body_filter" /\ last.handed /\ ~last.finalized_before

(* C20: the response document that is handed over is one JSON object with
   the members request_id, response_code, headers, response_start, body,
   truncated if the body was cut, and response_complete, in this order,
   one comma between two of them, the body one string literal; with
   status 204 and no body byte the body is "" and there is no truncated
   member. *)
C20_ResponseDocument ==
  ResponseSent =>
    /\ ResponseDocumentIn(last.doc, Sorted(Quotes(last.doc)),
                          last.body_total > conf.max_body_size, last.body_total)
    /\ last.doc_length = Len(last.doc)
    /\ last.body_total = 0 =>
          Occurs(Str(<<"\"","b","o","d","y","\"",":","\"","\"",",","\"","r","e","s","p","o","n","s","e","_","c","o","m","p","l","e","t","e","\"">>),
                 last.doc)

(* A response of status 204 without a body byte has been handed over. *)
C20_Witness ==
  /\ ResponseSent
  /\ last.body_total = 0
  /\ Occurs(Str(<<"\"","r","e","s","p","o","n","s","e","_","c","o","d","e","\"",":","2","0","4",",">>),
            last.doc)

(* The request document as far as the key of the headers, for a request
   with or without a Host header, internally re-dispatched or not. *)
RequestMembers(has_host, internal) ==
  Str(<<"{","\"","r","e","q","u","e","s","t","_","i","d","\"",":","\"","a","1","\"",",",
        "\"","m","e","t","h","o","d","\"",":","\"","G","E","T","\"",",",
        "\"","p","a","t","h","\"",":","\"","/","a","\"">>)
  \o (IF has_host
      THEN Str(<<",","\"","h","o","s","t","\"",":","\"","h","\"">>) ELSE <<>>)
  \o (IF internal
      THEN Str(<<",","\"","n","g","i","n","x","_","i","n","t","e","r","n","a","l","\"",
                 ":","\"","t","r","u","e","\"">>)
      ELSE <<>>)
  \o Str(<<",","\"","h","e","a","d","e","r","s","\"",":","[">>)

IsPrefix(head, seq) == Len(head) <= Len(seq) /\ SubSeq(seq, 1, Len(head)) = head

(* C21: the request document has request_id, method and path always, host
   exactly when the request has a Host header, nginx_internal with the
   value "true" exactly when the request is an internal one, and single
   commas between these members and before headers. *)
C21_RequestMembers ==
  (last.op = "body_callback" /\ last.send_called /\ last.doc # <<>>) =>
    IsPrefix(RequestMembers(last.kind[1], last.kind[2]), last.doc)

(* A request document without host and without nginx_internal has been
   handed over. *)
C21_Witness ==
  /\ last.op = "body_callback" /\ last.handed
  /\ last.kind = <<FALSE, FALSE>>
  /\ IsPrefix(RequestMembers(FALSE, FALSE), last.doc)

(* The headers a response document is to list for the response `out`:
   the supplementary ones that are there, then those of the list. *)
ListedHeaders(out) ==
  (IF Len(out.content_type) > 0
   THEN <<Header(Str(<<"C","o","n","t","e","n","t","-","T","y","p","e">>),
                 out.content_type)>>
   ELSE <<>>)
  \o (IF out.content_length_n >= 0
      THEN <<Header(Str(<<"C","o","n","t","e","n","t","-","L","e","n","g","t","h">>),
                    Decimal(out.content_length_n))>>
      ELSE <<>>)
  \o (IF out.last_modified_time >= 0
      THEN <<Header(Str(<<"L","a","s","t","-","M","o","d","i","f","i","e","d">>),
                    ngx_http_time(out.last_modified_time))>>
      ELSE <<>>)
  \o out.headers

(* The text of a list of headers in a document. *)
RECURSIVE HeadersText(_)
HeadersText(hs) ==
  IF hs = <<>> THEN <<>>
  ELSE (IF Len(hs) = 1 THEN <<>> ELSE HeadersText(SubSeq(hs, 1, Len(hs) - 1)) \o <<44>>)
       \o Str(<<"{","\"","h","e","a","d","e","r","\"",":">>)
       \o Quoted(hs[Len(hs)].key)
       \o Str(<<",","\"","v","a","l","u","e","\"",":">>)
       \o Quoted(hs[Len(hs)].value) \o <<125>>

(* C22: the header list of the response document has Content-Type exactly
   when the content type is not empty, Content-Length exactly when the
   length is known, Last-Modified exactly when that time is set, these
   first and in this order, then the headers of the response in their
   order; the header list of the response itself is left as it was. *)
C22_ResponseHeaderList ==
  (last.op = "header_filter" /\ last.wrote) =>
    /\ Occurs(Str(<<",","\"","h","e","a","d","e","r","s","\"",":","[">>)
                \o HeadersText(ListedHeaders(last.headers_before))
                \o Str(<<"]",",","\"","r","e","s","p","o","n","s","e","_","s","t","a","r","t","\"">>),
              DocData(ctx.response_json))
    /\ last.headers_after = last.headers_before

(* A response with a content length of 0 and a time of last modification,
   no content type, and two headers of its own. *)
C22_Witness ==
  /\ last.op = "header_filter" /\ last.wrote
  /\ last.headers_before.content_type = <<>>
  /\ last.headers_before.content_length_n = 0
  /\ last.headers_before.last_modified_time = 86400
  /\ Len(last.headers_before.headers) = 2
  /\ Occurs(Str(<<"[","{","\"","h","e","a","d","e","r","\"",":","\"","C","o","n","t","e","n","t","-","L","e","n","g","t","h","\"">>),
            DocData(ctx.response_json))

(* C23: a subrequest that is assigned to the agent's upstream is a POST
   to /trace/v1/request when the body callback made it and to
   /trace/v1/response when the body filter did, has the document for its
   body, application/json for its content type and the document's
   content_length for its Content-Length, which is the number of bytes in
   the buffers of the document, and has had the headers of the real
   request removed. *)
C23_Dispatch ==
  \A i \in 1..Len(last.subs) :
    last.subs[i].upstream =>
      /\ last.handed
      /\ last.subs[i].method = "POST"
      /\ last.subs[i].uri = (IF last.op = "body_callback"
                             THEN ngx_http_akita_request_location
                             ELSE ngx_http_akita_response_location)
      /\ last.subs[i].has_body
      /\ last.subs[i].content_type
      /\ last.subs[i].cleared
      /\ last.subs[i].content_length = last.doc_length
      /\ last.doc_length = Len(last.doc)

(* A response document of more than one buffer has been dispatched. *)
C23_Witness ==
  /\ last.op = "body_filter"
  /\ Len(last.subs) = 1
  /\ last.subs[1].upstream
  /\ last.subs[1].uri = ngx_http_akita_response_location
  /\ last.subs[1].content_length > json_initial_size

(* C24: the completion callback of a subrequest logs at warning severity
   when the result is not NGX_OK or the status is not 200 and at debug
   severity otherwise, returns NGX_OK, and leaves the session of the real
   request (its context, its place in the phases, its response, what it
   has dispatched) as it was. *)
C24_CallbackOnlyLogs ==
  [][ last'.op = "subrequest_callback" =>
        /\ last'.severity = (IF last'.status = 200 /\ last'.send_rc = NGX_OK
                             THEN "NGX_LOG_DEBUG" ELSE "NGX_LOG_WARN")
        /\ last'.ret = NGX_OK
        /\ UNCHANGED <<conf, pc, ctx, resp, crashed, sent>> ]_vars

(* The agent answered 200 but the subrequest ended with an error, while
   the real request was still in its phases. *)
C24_Witness ==
  /\ last.op = "subrequest_callback"
  /\ last.status = 200
  /\ last.send_rc = NGX_ERROR
  /\ last.severity = "NGX_LOG_WARN"
  /\ pc = "phases"

(* C25: the handlers do not wait for a subrequest.  The body callback
   that has called the sending of the request document resumes the real
   request in the same call; the body filter that has called the sending
   of the response document passes the chain it was given to the next
   filter in the same call and returns what that filter returns; and for
   as long as a subrequest has not completed, whatever its completion will
   be, the real request is not held. *)
C25_FireAndForget ==
  /\ (last.op = "body_callback" /\ last.returned /\ last.send_called) =>
        (last.resumed /\ pc = "phases")
  /\ (last.op = "body_filter" /\ last.main /\ last.returned /\ last.send_called) =>
        (last.ret = last.next_rc /\ last.next_chain = last.chain)
  /\ (Len(inflight) > 0 /\ ~crashed) => pc \notin {"waiting", "held"}

(* The final chunk of the response has been passed on while neither the
   subrequest of the request document nor that of the response document
   has completed. *)
C25_Witness ==
  /\ last.op = "body_filter"
  /\ last.handed
  /\ last.ret = NGX_OK
  /\ resp.stage = "done"
  /\ Len(inflight) = 2
  /\ inflight[1].uri = ngx_http_akita_request_location
  /\ inflight[2].uri = ngx_http_akita_response_location

(* C26: in one session the request document is handed to
   ngx_akita_send_api_call at most once and the response document at most
   once. *)
C26_SingleAttempt ==
  /\ sent.request <= 1
  /\ sent.response <= 1

(* C27: when the request id is not found, the body callback that calls
   ngx_akita_send_request_body hands no request document over and posts no
   subrequest, and resumes the real request; the header filter hands nothing over, leaves the response
   session disabled, leaves the headers of the response as they are and
   returns what the next header filter returns; neither call fails. *)
C27_NoRequestId ==
  /\ (last.op = "body_callback" /\ last.fault = "request_id" /\ last.send_called) =>
        /\ last.returned
        /\ last.send_rc = NGX_ERROR
        /\ ~last.handed /\ last.subs = <<>>
        /\ last.resumed /\ pc = "phases" /\ ctx.status = NGX_DECLINED
  /\ (last.op = "header_filter" /\ last.main /\ last.fault = "request_id") =>
        /\ last.returned
        /\ ~last.handed /\ last.subs = <<>>
        /\ ~ctx.enabled
        /\ last.ret = last.next_rc
        /\ last.headers_after = last.headers_before

(* The header filter of a session whose request document was sent has
   tried to open the response document without a request id. *)
C27_Witness ==
  /\ last.op = "header_filter" /\ last.main /\ last.fault = "request_id"
  /\ last.log # <<>> /\ last.log[1] = "start"
  /\ resp.disabled
  /\ sent.request = 1

(* C28: a writer call writes only from the buffer that was the last one
   on: the buffers before it keep their cursors, their capacities and
   their bytes, no buffer is removed or resized, the bytes that were in
   the document stay where they are, a buffer that the call appends is
   the last one and has at least the initial size and room for all that
   was written into it, and no buffer holds more bytes than its capacity. *)
C28_WritesLandInTail ==
  w.call.op # "none" =>
    /\ Len(w.j.chain) >= w.call.bufs_before
    /\ w.j.tail = Len(w.j.chain)
    /\ w.call.kept
    /\ \A i \in 1..w.call.bufs_before :
         /\ w.j.chain[i].size = w.call.sizes_before[i]
         /\ Len(w.j.chain[i].data) >= w.call.cursors_before[i]
         /\ i < w.call.bufs_before =>
               Len(w.j.chain[i].data) = w.call.cursors_before[i]
    /\ \A i \in 1..Len(w.j.chain) :
         /\ Len(w.j.chain[i].data) <= w.j.chain[i].size
         /\ i > w.call.bufs_before => w.j.chain[i].size >= json_initial_size

(* A string literal larger than a buffer has been written after a few
   bytes: a buffer of exactly its size was appended and filled to its end,
   the first buffer keeping what it had. *)
C28_Witness ==
  /\ w.call.op = "string"
  /\ Len(w.call.arg) = json_initial_size
  /\ w.call.bufs_before = 1
  /\ w.call.tail_before > 0
  /\ Len(w.j.chain) = 2
  /\ Len(w.j.chain[1].data) = w.call.tail_before
  /\ w.j.chain[2].size = json_initial_size + 2
  /\ Len(w.j.chain[2].data) = json_initial_size + 2

(* The bytes between pos and last of each buffer of a chain, and the sum
   of such counts. *)
Cursors(chain) == [i \in 1..Len(chain) |-> Len(chain[i].data)]

RECURSIVE CursorSum(_, _)
CursorSum(cursors, i) ==
  IF i > Len(cursors) THEN 0 ELSE cursors[i] + CursorSum(cursors, i + 1)

(* C29: after every writer call content_length is the sum over the buffers
   of the bytes written to them, and the call has advanced content_length
   by as much as it has advanced the cursors. *)
C29_LengthIsBytesWritten ==
  w.call.op # "none" =>
    /\ w.j.content_length = CursorSum(Cursors(w.j.chain), 1)
    /\ w.j.content_length - w.call.length_before
         = CursorSum(Cursors(w.j.chain), 1) - CursorSum(w.call.cursors_before, 1)
    /\ w.j.content_length - w.call.length_before = Len(w.call.out)

(* A property of fewer bytes than the room asked for has been written
   across the end of a buffer. *)
C29_Witness ==
  /\ w.call.op = "uint"
  /\ w.call.tail_before = json_initial_size - 5
  /\ Len(w.j.chain) = 2
  /\ Len(w.j.chain[1].data) = json_initial_size - 1
  /\ Len(w.j.chain[2].data) = 1
  /\ w.j.content_length = json_initial_size

(* C30: at a location where the mirroring is on, the pre-content handler
   returns NGX_DONE for the first observation of a main request, which is
   every call before the body callback has run, and NGX_DECLINED for every
   call after it; the status of a session is NGX_DONE or NGX_DECLINED. *)
C30_HoldThenProceed ==
  /\ (last.op = "precontent" /\ last.main /\ conf.enabled) =>
        last.ret = (IF last.first THEN NGX_DONE ELSE NGX_DECLINED)
  /\ ctx.exists => ctx.status \in {NGX_DONE, NGX_DECLINED}

(* The part of C30 that the handlers keep: when nothing fails in the call,
   the handler holds the first observation and lets every later one
   proceed. *)
HoldsUnlessFailed ==
  (last.op = "precontent" /\ last.main /\ conf.enabled /\ last.fault = "none") =>
    /\ last.ret = (IF last.first THEN NGX_DONE ELSE NGX_DECLINED)
    /\ last.ret = ctx.status

(* The status of a session never goes back from NGX_DECLINED, and a
   session, once created, stays, with the time of its first observation. *)
StatusNeverGoesBack ==
  [][ /\ (ctx.exists /\ ctx.status = NGX_DECLINED) => ctx'.status = NGX_DECLINED
      /\ ctx.exists => (ctx'.exists /\ ctx'.request_start = ctx.request_start) ]_vars

(* The steps of the body callback in their order. *)
CallbackOrder == <<"request_arrived", "send", "status", "run_phases">>

(* C31: the body callback takes the time of the last byte, then builds the
   request document, which carries that time, and hands it over, then
   sets the status to NGX_DECLINED, then re-runs the phases: a callback
   that resumed the request had called the sending before, and the real
   handler of a mirrored request is reached only after a sending was
   attempted. *)
C31_CallbackOrder ==
  /\ last.op = "body_callback" =>
        /\ IsPrefix(last.log, CallbackOrder)
        /\ last.send_called => ctx.request_arrived = Now(clock - 1)
        /\ last.handed =>
              Occurs(Str(<<"\"","r","e","q","u","e","s","t","_","a","r","r","i","v","e","d","\"",":">>)
                       \o TimeFormat(ngx_gmtime(Now(clock - 1).tv_sec),
                                     Now(clock - 1).tv_usec),
                     last.doc)
        /\ last.resumed =>
              (last.send_called /\ last.log = CallbackOrder
                 /\ ctx.status = NGX_DECLINED)
  /\ (conf.enabled /\ pc = "content") => sent.request + sent.failed >= 1

(* A callback whose sending failed has gone through all four steps. *)
C31_Witness ==
  /\ last.op = "body_callback"
  /\ last.send_called /\ ~last.handed /\ last.send_rc = NGX_ERROR
  /\ last.log = CallbackOrder
  /\ last.resumed

(* C32: a headers event of a main request that has a session opens a
   response document when nothing fails in it, whatever the status of the
   session and whatever became of the request document; for a request
   without a session the header filter and the body filter write nothing,
   hand nothing over and return what the next filter returns. *)
C32_ResponseSideIsIndependent ==
  /\ (last.op = "header_filter" /\ last.main /\ conf.enabled /\ ctx.exists
        /\ last.fault = "none") =>
        /\ last.wrote
        /\ ctx.enabled
        /\ ~IsNull(ctx.response_json)
        /\ ctx.response_start = Now(clock - 1)
  /\ (last.op \in {"header_filter", "body_filter"} /\ last.main /\ ~ctx.exists) =>
        /\ ~last.wrote
        /\ ~last.send_called
        /\ IsNull(ctx.response_json)
        /\ last.returned
        /\ last.ret = last.next_rc

(* A response document has been opened while the request body was still
   awaited: the read of the body had failed and the host answers. *)
C32_Witness ==
  /\ last.op = "header_filter" /\ last.main
  /\ last.wrote
  /\ ctx.status = NGX_DONE
  /\ sent.request = 0

(* C33: a handler call on a subrequest, or on a request at a location
   where the mirroring is off, creates no session, writes no document,
   hands nothing over and posts no subrequest; the filters go straight to
   the next filter with what they were given and return its result; the
   pre-content handler declines, except for a subrequest that carries the
   upstream of the location that made it, which it passes to that
   upstream. *)
C33_OnlyMainRequestsAreMirrored ==
  [][ (last'.op # "none" /\ (~last'.main \/ ~conf.enabled)) =>
        /\ ctx' = ctx
        /\ sent' = sent
        /\ Len(inflight') <= Len(inflight)
        /\ ~last'.wrote /\ ~last'.send_called /\ last'.subs = <<>>
        /\ last'.op \in {"header_filter", "body_filter"} =>
              /\ last'.log = <<"next">>
              /\ last'.ret = last'.next_rc
              /\ last'.headers_after = last'.headers_before
              /\ last'.next_chain = last'.chain
        /\ (last'.op = "precontent" /\ last'.main) => last'.ret = NGX_DECLINED
        /\ (last'.op = "precontent" /\ ~last'.main) =>
              \E i \in 1..Len(inflight) :
                /\ inflight[i].stage = "posted"
                /\ inflight'[i].stage = "running"
                /\ last'.ret = (IF ~inflight[i].upstream THEN NGX_DECLINED
                                ELSE IF last'.fault = "upstream_create"
                                THEN NGX_HTTP_INTERNAL_SERVER_ERROR
                                ELSE NGX_DONE) ]_vars

(* The subrequest of a response document has been passed to the agent's
   upstream and the filters have run on the agent's answer. *)
C33_Witness ==
  /\ last.op = "body_filter" /\ ~last.main
  /\ last.log = <<"next">>
  /\ \E i \in 1..Len(inflight) :
       /\ inflight[i].uri = ngx_http_akita_response_location
       /\ inflight[i].upstream
       /\ inflight[i].stage = "running"

(* The body string literal of a document is open: the unescaped quotes
   before the end of the text are odd in number. *)
BodyOpen(j) == Cardinality(Quotes(DocData(j))) % 2 = 1

(* What C34 says of a session whose enabled flag is set. *)
HasOpenDocument(c, seen) ==
  /\ ~IsNull(c.response_json)
  /\ ~c.response_json.oom
  /\ BodyOpen(c.response_json)
  /\ c.response_body_size = seen

(* C34: between the handler calls of a live worker, a session whose
   enabled flag is set has a response document with its body literal open
   and its out-of-memory flag clear, and a byte count equal to the size of
   the chunks since the headers event. *)
C34_EnabledHasOpenDocument ==
  (~crashed /\ ctx.exists /\ ctx.enabled) => HasOpenDocument(ctx, resp.seen)

(* The part of C34 that the handlers keep: it holds until the document is
   handed over, and the body filter writes only to a document that the
   headers event has opened. *)
EnabledUntilFinalized ==
  /\ (~crashed /\ ctx.exists /\ ctx.enabled /\ ~resp.finalized) =>
        HasOpenDocument(ctx, resp.seen)
  /\ (last.op = "body_filter" /\ last.wrote) =>
        (last.enabled_before /\ ~IsNull(ctx.response_json))

(* C35: a sending that returns an error leaves no subrequest behind, and
   every subrequest in flight has the method, the body, the headers and
   the upstream context that ngx_akita_send_api_call gives it, so that the
   pre-content handler never declines a subrequest of the module. *)
C35_FailedSendLeavesNothing ==
  /\ (last.send_called /\ last.returned /\ last.send_rc # NGX_OK) => last.subs = <<>>
  /\ \A i \in 1..Len(last.subs) :
       /\ last.subs[i].method = "POST"
       /\ last.subs[i].has_body
       /\ last.subs[i].content_type
       /\ last.subs[i].content_length = last.doc_length
       /\ last.subs[i].upstream
  /\ \A i \in 1..Len(inflight) : inflight[i].upstream
  /\ (last.op = "precontent" /\ ~last.main) => last.ret # NGX_DECLINED

(* The part of C35 that the code keeps: a sending that returns NGX_OK
   without undefined behaviour leaves one subrequest, complete, and a
   failure of ngx_http_subrequest itself leaves none. *)
SuccessfulSendIsComplete ==
  /\ (last.send_called /\ last.returned /\ last.send_rc = NGX_OK
        /\ last.fault \notin UBFaults) =>
        /\ Len(last.subs) = 1
        /\ last.subs[1].upstream /\ last.subs[1].has_body
        /\ last.subs[1].content_type /\ last.subs[1].cleared
  /\ (last.send_called /\ last.fault = "subrequest_special") =>
        (last.send_rc = NGX_ERROR /\ last.subs = <<>>)

(* What json_escape_buf answers to a buffer without data that is not the
   final one, on a capture that has seen nothing and has room. *)
DatalessResult ==
  json_escape_buf(json_alloc(NoPool), [palloc |-> TRUE, read |-> "all", junk |-> 0],
                  1, 0, Chunk("sync", 0, 0)).rc

(* C36: json_escape_buf accepts every empty buffer with the final marker,
   and answers every other buffer without data in one way, whether the
   capture is below its limit or has reached it. *)
C36_DatalessChunkOutcome ==
  /\ cap.call.kind = "last" => cap.call.rc = NGX_OK
  /\ cap.call.kind = "sync" => cap.call.rc = DatalessResult

(* The part of C36 that the code keeps: the empty final buffer is always
   accepted and changes neither the literal nor the count, and below the
   limit every other buffer without data is rejected. *)
EmptyLastIsAccepted ==
  /\ cap.call.kind = "last" =>
        /\ cap.call.rc = NGX_OK
        /\ cap.total_size = cap.call.total_before
        /\ Len(cap.lit) = cap.call.lit_before
  /\ (cap.call.kind = "sync" /\ cap.call.total_before < cap.max_size) =>
        cap.call.rc = NGX_ERROR

----------------------------------------------------------------------------
(* The configuration of a location: the directives akita_agent,
   akita_enable and akita_max_body_size as the parser meets them, then the
   merge with the enclosing level, which has none of them. *)

(* NGX_CONF_UNSET, NGX_CONF_UNSET_SIZE *)
NGX_CONF_UNSET == -1

default_max_body == 1048576
default_agent_address ==
  Str(<<"l","o","c","a","l","h","o","s","t",":","5","0","8","0","0">>)

(* u.default_port of ngx_http_akita_create_upstream *)
default_port == 50080

(* No upstream: conf->upstream.upstream == NULL. *)
NoUpstream == [host |-> <<>>, port |-> 0, no_port |-> FALSE]

(* ngx_http_akita_create_loc_conf; result: what the last directive or the
   merge returned. *)
ngx_http_akita_create_loc_conf ==
  [enabled |-> NGX_CONF_UNSET, max_body_size |-> NGX_CONF_UNSET,
   agent_address |-> ngx_null_string, upstream |-> NoUpstream,
   merged |-> FALSE, result |-> "NGX_CONF_OK"]

(* The url of ngx_http_upstream_add, as ngx_parse_url reads a host with an
   optional ":port": the port after the last colon, or the default port
   when there is none; ok is FALSE for a port that is no number from 1 to
   65535. *)
Colons(url) == {k \in 1..Len(url) : url[k] = 58}
ParseUrl(url, port_if_none) ==
  IF Colons(url) = {}
  THEN [ok |-> Len(url) > 0, host |-> url, port |-> port_if_none, no_port |-> TRUE]
  ELSE LET colon == CHOOSE k \in Colons(url) : \A m \in Colons(url) : m <= k
           port == IF colon = Len(url) THEN -1
                   ELSE Number(SubSeq(url, colon + 1, Len(url)))
       IN [ok |-> colon > 1 /\ port \in 1..65535,
           host |-> SubSeq(url, 1, colon - 1), port |-> port, no_port |-> FALSE]

(* ngx_http_akita_create_upstream *)
ngx_http_akita_create_upstream(akita_conf, host) ==
  LET u == ParseUrl(host, default_port)
  IN IF ~u.ok THEN [akita_conf EXCEPT !.result = "NGX_CONF_ERROR"]
     ELSE [akita_conf EXCEPT
             !.upstream = [host |-> u.host, port |-> u.port, no_port |-> u.no_port],
             !.result = "NGX_CONF_OK"]

(* ngx_http_akita_agent: the directive akita_agent. *)
ngx_http_akita_agent(akita_conf, value) ==
  IF akita_conf.upstream # NoUpstream
  THEN [akita_conf EXCEPT !.result = "is duplicate"]
  ELSE ngx_http_akita_create_upstream(akita_conf, value)

(* ngx_http_akita_merge_loc_conf with a parent in which nothing is set. *)
ngx_http_akita_merge_loc_conf(c) ==
  LET merged_conf ==
        [c EXCEPT !.agent_address = IF @ = ngx_null_string
                                    THEN default_agent_address ELSE @,
                  !.max_body_size = IF @ = NGX_CONF_UNSET THEN default_max_body ELSE @,
                  !.enabled = IF @ = NGX_CONF_UNSET THEN 0 ELSE @,
                  !.merged = TRUE]
  IN IF merged_conf.upstream = NoUpstream /\ merged_conf.enabled = 1
     THEN ngx_http_akita_create_upstream(merged_conf, merged_conf.agent_address)
     ELSE [merged_conf EXCEPT !.result = "NGX_CONF_OK"]

(* Values of the directives. *)
AgentAddresses ==
  { Str(<<"l","o","c","a","l","h","o","s","t">>),
    Str(<<"l","o","c","a","l","h","o","s","t",":","5","0","8","0","0">>),
    Str(<<"l","o","c","a","l","h","o","s","t",":","8","0">>),
    Str(<<"a">>),
    Str(<<"a",":","5","0","0","8","0">>),
    Str(<<"a",":">>),
    Str(<<"a",":","0">>) }
BodySizes == {0, 2, 10}

Parsing == ~conf.merged /\ conf.result = "NGX_CONF_OK"

AkitaAgent(value) ==
  /\ Parsing
  /\ conf' = ngx_http_akita_agent(conf, value)
  /\ UNCHANGED <<pc, ctx, resp, inflight, last, crashed, sent, cap, w, clock>>

(* ngx_conf_set_flag_slot and ngx_conf_set_size_slot refuse a second value. *)
AkitaEnable(flag) ==
  /\ Parsing
  /\ conf' = IF conf.enabled # NGX_CONF_UNSET
             THEN [conf EXCEPT !.result = "is duplicate"]
             ELSE [conf EXCEPT !.enabled = flag]
  /\ UNCHANGED <<pc, ctx, resp, inflight, last, crashed, sent, cap, w, clock>>

AkitaMaxBodySize(size) ==
  /\ Parsing
  /\ conf' = IF conf.max_body_size # NGX_CONF_UNSET
             THEN [conf EXCEPT !.result = "is duplicate"]
             ELSE [conf EXCEPT !.max_body_size = size]
  /\ UNCHANGED <<pc, ctx, resp, inflight, last, crashed, sent, cap, w, clock>>

MergeLocConf ==
  /\ Parsing
  /\ conf' = ngx_http_akita_merge_loc_conf(conf)
  /\ UNCHANGED <<pc, ctx, resp, inflight, last, crashed, sent, cap, w, clock>>

InitConf ==
  /\ conf = ngx_http_akita_create_loc_conf
  /\ pc = "phases"
  /\ ctx = NoCtx
  /\ resp = NoResp
  /\ inflight = <<>>
  /\ last = NoLast
  /\ crashed = FALSE
  /\ sent = [request |-> 0, response |-> 0, failed |-> 0]
  /\ cap = CapIdle
  /\ w = WriterIdle
  /\ clock = 0

NextConf ==
  \/ \E value \in AgentAddresses : AkitaAgent(value)
  \/ \E flag \in {0, 1} : AkitaEnable(flag)
  \/ \E size \in BodySizes : AkitaMaxBodySize(size)
  \/ MergeLocConf

SpecConf == InitConf /\ [][NextConf]_vars

(* C37: an upstream that is made from an address without a port has port
   50800, the port of the default agent address. *)
C37_DefaultPort ==
  (conf.upstream # NoUpstream /\ conf.upstream.no_port) =>
    /\ conf.upstream.port = 50800
    /\ conf.upstream.port = ParseUrl(default_agent_address, 0).port

(* The part of C37 that the code keeps: the upstream of a location that
   has no akita_agent directive and is enabled is made from the default
   address and has port 50800, and a port that is given is taken. *)
DefaultAddressPort ==
  /\ (conf.merged /\ conf.result = "NGX_CONF_OK" /\ conf.enabled = 1) =>
        /\ conf.upstream # NoUpstream
        /\ conf.agent_address = default_agent_address
  /\ (conf.upstream # NoUpstream /\ ~conf.upstream.no_port) =>
        conf.upstream.port \in {50800, 80, 50080}

====
